---------------------------- MODULE Spec2Model ----------------------------
(***************************************************************************)
(* The object model and ownership protocol of the WebAssembly C API       *)
(* wrapper, lib/api/wasm_c.cpp: a heap of objects, the caller's handles   *)
(* and vectors, and one action per exported function.                     *)
(***************************************************************************)
EXTENDS Integers, Sequences, FiniteSets, TLC

(***************************************************************************)
(* Bounds of the model.                                                    *)
(***************************************************************************)
\* addresses the allocator hands out before operator new returns nullptr
VecHeap == 4
\* buffers a caller leaks by constructing over a vector that holds one
MaxLeak == 1
\* longest vector a caller builds
MaxLen == 2

(***************************************************************************)
(* Pointers.  An address is a positive integer, nullptr is 0, and WILD is  *)
(* the value of a pointer read from memory nobody has written.             *)
(***************************************************************************)
NULL == 0
WILD == -1

\* wasm_valkind_t, wasm_mutability_t, wasm_externkind_t
WASM_I32 == "WASM_I32"
WASM_I64 == "WASM_I64"
WASM_F32 == "WASM_F32"
WASM_F64 == "WASM_F64"
WASM_ANYREF == "WASM_ANYREF"
WASM_FUNCREF == "WASM_FUNCREF"
WASM_CONST == "WASM_CONST"
WASM_VAR == "WASM_VAR"
WASM_EXTERN_FUNC == "WASM_EXTERN_FUNC"
WASM_EXTERN_GLOBAL == "WASM_EXTERN_GLOBAL"
WASM_EXTERN_TABLE == "WASM_EXTERN_TABLE"
WASM_EXTERN_MEMORY == "WASM_EXTERN_MEMORY"

VARIABLES
  heap,      \* address -> the object stored there, FreeCell when none is
  brk,       \* the next address operator new hands out
  released,  \* address -> how often the address was given to operator delete
  fault,     \* "none", or the fault that ended the process
  hnd,       \* the caller's pointer variables, by name
  own,       \* whether the caller still owns what hnd[s] points to
  vec,       \* the caller's vector structs, by name
  last       \* the call just made: its name, arguments and return value

vars == <<heap, brk, released, fault, hnd, own, vec, last>>

\* the value of last before the first call
NoCall == [op |-> "init", name |-> "", a |-> NULL, ret |-> NULL,
           failed |-> FALSE]

(***************************************************************************)
(* The heap.  Every operation threads a memory record m through the       *)
(* statements of the function it models; m.fails names which of the       *)
(* operation's allocations (the 1st, 2nd, ...) return nullptr, and m.ub   *)
(* what the build does on a second delete of one address, and m.junk the  *)
(* values of the vector structs an object holds before anything has been  *)
(* stored in them.  The heap's domain is the memory the run has.          *)
(***************************************************************************)
FreeCell == [tag |-> "free"]

Mem(fails, ub, junk) ==
  [heap |-> heap, brk |-> brk, released |-> released, fault |-> fault,
   n |-> 0, fails |-> fails, failed |-> FALSE, ub |-> ub, junk |-> junk]

Addr(m) == DOMAIN m.heap

Live(m, p) == p \in Addr(m) /\ m.heap[p].tag # "free"

Fault(m, f) == IF m.fault = "none" THEN [m EXCEPT !.fault = f] ELSE m

\* new (std::nothrow) T(...): the cell's address, or nullptr when it fails.
\* The allocator hands out increasing addresses and none of them twice.
OperatorNew(m, cell) ==
  IF m.fault # "none" THEN [m |-> m, p |-> NULL]
  ELSE IF (m.n + 1) \in m.fails \/ m.brk \notin Addr(m)
    THEN [m |-> [m EXCEPT !.n = @ + 1, !.failed = TRUE], p |-> NULL]
    ELSE [m |-> [m EXCEPT !.n = @ + 1, !.heap[m.brk] = cell, !.brk = @ + 1],
          p |-> m.brk]

\* operator delete / delete[] on a pointer
OperatorDelete(m, p) ==
  IF m.fault # "none" \/ p = NULL THEN m
  ELSE IF p \notin Addr(m) THEN Fault(m, "wild_pointer")
  ELSE IF m.heap[p].tag = "free"
    THEN [m EXCEPT !.released[p] = @ + 1,
                   !.fault = IF m.ub = "abort" THEN "double_free" ELSE "none"]
    ELSE [m EXCEPT !.heap[p] = FreeCell, !.released[p] = @ + 1]

\* what a read through p does when p is not a live object
BadPointer(p) ==
  IF p = NULL THEN "null_deref"
  ELSE IF p = WILD THEN "wild_pointer" ELSE "use_after_free"

(***************************************************************************)
(* Vector structs {size, data}.  A pointer to a struct is modelled by the  *)
(* struct's value, and a null pointer to one by NullRef.  The scalar       *)
(* family stores its elements inline, the pointer family stores pointers.  *)
(***************************************************************************)
NullRef == [null |-> TRUE]
\* a pointer to the first element of a caller's array
Array(elems) == [elems |-> elems]
EmptyVec == [size |-> 0, data |-> NULL]
JunkVecs == {[size |-> 0, data |-> NULL], [size |-> 1, data |-> WILD]}
ScalarNames == {"byte", "val"}
Buf(elems) == [tag |-> "buf", elems |-> elems]
\* the element std::memset(data, 0, ...) leaves in a slot
Zero(name) ==
  IF name = "byte" THEN 0
  ELSE IF name = "val" THEN [kind |-> WASM_I32, of |-> 0] ELSE NULL

RECURSIVE destroy(_, _, _)
RECURSIVE copy(_, _, _)

\* WASM_STRUCT_GET_ATTR(obj, destroy(), , ) in wasm_##name##_delete
wasm_delete(m, name, obj) ==
  IF obj # NULL THEN destroy(m, name, obj) ELSE m

\* wasm_##name##_copy without the test of in
wasm_copy_unchecked(m, name, in) == copy(m, name, in)

\* WASM_STRUCT_GET_ATTR(in, copy(), nullptr, ) in wasm_##name##_copy
wasm_copy(m, name, in) ==
  IF in # NULL THEN copy(m, name, in) ELSE [m |-> m, p |-> NULL]

\* wasm_vec_new_empty without the test of out
wasm_vec_new_empty_unchecked(m, name, out) ==
  IF out # NullRef
    THEN [m |-> m, out |-> [size |-> 0, data |-> NULL]]
    ELSE [m |-> Fault(m, "null_deref"), out |-> out]

wasm_vec_new_empty(m, name, out) ==
  IF out # NullRef
    THEN [m |-> m, out |-> [size |-> 0, data |-> NULL]]
    ELSE [m |-> m, out |-> out]

\* wasm_vec_new_uninitialized without the std::memset: the slots hold
\* whatever the allocation held
wasm_vec_new_uninitialized_raw(m, name, out, size) ==
  IF out # NullRef
    THEN IF size > 0
      THEN LET a == OperatorNew(m, Buf([i \in 1..size |-> WILD]))
           IN  [m |-> a.m, out |-> [size |-> size, data |-> a.p]]
      ELSE [m |-> m, out |-> [size |-> size, data |-> NULL]]
    ELSE [m |-> m, out |-> out]

wasm_vec_new_uninitialized(m, name, out, size) ==
  IF out # NullRef
    THEN IF size > 0
      THEN LET a == OperatorNew(m, Buf([i \in 1..size |-> Zero(name)]))
           IN  IF a.p = NULL
                 THEN \* std::memset(nullptr, 0, n)
                      [m |-> Fault(a.m, "null_deref"),
                       out |-> [size |-> size, data |-> NULL]]
                 ELSE [m |-> a.m, out |-> [size |-> size, data |-> a.p]]
      ELSE [m |-> m, out |-> [size |-> size, data |-> NULL]]
    ELSE [m |-> m, out |-> out]

\* copy_n_move with a source whose moved-from slots become null
copy_n_move_clearing(vals, size) ==
  [dst |-> SubSeq(vals.elems, 1, size),
   src |-> Array([i \in DOMAIN vals.elems |->
                    IF i <= size THEN NULL ELSE vals.elems[i]])]

\* std::copy_n(std::make_move_iterator(vals), size, data): the elements
\* stored, and the caller's array afterwards.  The array is const and its
\* elements are plain pointers or bytes, so moving from one copies it.
copy_n_move(vals, size) ==
  [dst |-> SubSeq(vals.elems, 1, size), src |-> vals]

wasm_vec_new(m, name, out, size, vals) ==
  IF out # NullRef
    THEN IF size > 0
      THEN LET a == OperatorNew(m, Buf(<<>>))
           IN  IF a.p = NULL \/ vals = NullRef
                 THEN [m |-> Fault(a.m, "null_deref"),
                       out |-> [size |-> size, data |-> a.p], vals |-> vals]
                 ELSE LET c == copy_n_move(vals, size)
                      IN  [m |-> [a.m EXCEPT !.heap[a.p] = Buf(c.dst)],
                           out |-> [size |-> size, data |-> a.p],
                           vals |-> c.src]
      ELSE [m |-> m, out |-> [size |-> size, data |-> NULL], vals |-> vals]
    ELSE [m |-> m, out |-> out, vals |-> vals]

\* CopyElems storing the source's pointers instead of copies
CopyElems_shallow(m, name, src, dst, i) == [m |-> m, elems |-> src]

\* for (i = 0; i < in->size; i++) out->data[i] = wasm_##name##_copy(in->data[i])
RECURSIVE CopyElems(_, _, _, _, _)
CopyElems(m, name, src, dst, i) ==
  IF m.fault # "none" \/ i > Len(src) THEN [m |-> m, elems |-> dst]
  ELSE LET c == wasm_copy(m, name, src[i])
       IN  CopyElems(c.m, name, src, Append(dst, c.p), i + 1)

wasm_ptr_vec_copy(m, name, out, in) ==
  IF in # NullRef /\ out # NullRef
    THEN IF in.size > 0
      THEN LET a == OperatorNew(m, Buf(<<>>))
           IN  IF ~Live(a.m, in.data)
                 THEN [m |-> Fault(a.m, BadPointer(in.data)),
                       out |-> [size |-> in.size, data |-> a.p]]
               ELSE IF a.p = NULL
                 THEN \* the first copy is made, then stored through nullptr
                      [m |-> Fault(wasm_copy(a.m, name,
                                             a.m.heap[in.data].elems[1]).m,
                                   "null_deref"),
                       out |-> [size |-> in.size, data |-> NULL]]
               ELSE LET c == CopyElems(a.m, name,
                               SubSeq(a.m.heap[in.data].elems, 1, in.size),
                               <<>>, 1)
                    IN  [m |-> [c.m EXCEPT !.heap[a.p] = Buf(c.elems)],
                         out |-> [size |-> in.size, data |-> a.p]]
      ELSE [m |-> m, out |-> [size |-> in.size, data |-> NULL]]
    ELSE [m |-> m, out |-> out]

\* for (i = 0; i < vec->size; i++) wasm_##name##_delete(vec->data[i])
RECURSIVE DeleteElems(_, _, _, _)
DeleteElems(m, name, elems, i) ==
  IF m.fault # "none" \/ i > Len(elems) THEN m
  ELSE DeleteElems(wasm_delete(m, name, elems[i]), name, elems, i + 1)

\* VecReset without the assignment to size
VecReset_data_only(v) == [v EXCEPT !.data = NULL]

\* VecReset without the assignment to data
VecReset_size_only(v) == [v EXCEPT !.size = 0]

\* vec->size = 0; vec->data = nullptr
VecReset(v) == [v EXCEPT !.size = 0, !.data = NULL]

wasm_ptr_vec_delete(m, name, v) ==
  IF v # NullRef
    THEN IF v.size > 0
      THEN IF ~Live(m, v.data)
        THEN [m |-> Fault(m, BadPointer(v.data)), v |-> v]
        ELSE LET d == DeleteElems(m, name,
                                  SubSeq(m.heap[v.data].elems, 1, v.size), 1)
                 f == OperatorDelete(d, v.data)
             IN  IF f.fault # "none" THEN [m |-> f, v |-> v]
                 ELSE [m |-> f, v |-> VecReset(v)]
      ELSE [m |-> m, v |-> VecReset(v)]
    ELSE [m |-> m, v |-> v]

wasm_scalar_vec_copy(m, name, out, in) ==
  IF in # NullRef /\ out # NullRef
    THEN IF in.size > 0
      THEN LET a == OperatorNew(m, Buf(<<>>))
           IN  IF ~Live(a.m, in.data)
                 THEN [m |-> Fault(a.m, BadPointer(in.data)),
                       out |-> [size |-> in.size, data |-> a.p]]
               ELSE IF a.p = NULL
                 THEN [m |-> Fault(a.m, "null_deref"),
                       out |-> [size |-> in.size, data |-> NULL]]
               ELSE [m |-> [a.m EXCEPT !.heap[a.p] =
                              Buf(SubSeq(a.m.heap[in.data].elems, 1, in.size))],
                     out |-> [size |-> in.size, data |-> a.p]]
      ELSE [m |-> m, out |-> [out EXCEPT !.size = in.size]]
    ELSE [m |-> m, out |-> out]

wasm_scalar_vec_delete(m, name, v) ==
  IF v # NullRef
    THEN IF v.size > 0
      THEN LET f == OperatorDelete(m, v.data)
           IN  IF f.fault # "none" THEN [m |-> f, v |-> v]
               ELSE [m |-> f, v |-> VecReset(v)]
      ELSE [m |-> m, v |-> VecReset(v)]
    ELSE [m |-> m, v |-> v]

\* WASM_DECLARE_VEC_SCALAR_IMPL(byte), WASM_DECLARE_VEC_SCALAR_IMPL(val),
\* and WASM_DECLARE_VEC_PTR_IMPL for every other name
wasm_vec_copy(m, name, out, in) ==
  IF name \in ScalarNames THEN wasm_scalar_vec_copy(m, name, out, in)
  ELSE wasm_ptr_vec_copy(m, name, out, in)

wasm_vec_delete(m, name, v) ==
  IF name \in ScalarNames THEN wasm_scalar_vec_delete(m, name, v)
  ELSE wasm_ptr_vec_delete(m, name, v)

(***************************************************************************)
(* The object types.  A heap cell carries the type it was constructed as   *)
(* (tag) and the struct's fields; an ExternType variant carries the        *)
(* discriminant kind its base constructor stored.                          *)
(***************************************************************************)
ExternNames == {"functype", "globaltype", "tabletype", "memorytype"}

\* the discriminant each variant's constructor passes to wasm_externtype_t
ExternKindOf(name) ==
  CASE name = "functype" -> WASM_EXTERN_FUNC
    [] name = "globaltype" -> WASM_EXTERN_GLOBAL
    [] name = "tabletype" -> WASM_EXTERN_TABLE
    [] name = "memorytype" -> WASM_EXTERN_MEMORY

\* ~wasm_functype_t
wasm_functype_t_dtor(m, p) ==
  LET a == wasm_vec_delete(m, "valtype", m.heap[p].params)
      b == wasm_vec_delete(a.m, "valtype", m.heap[p].results)
  IN  b.m

\* ~wasm_importtype_t
wasm_importtype_t_dtor(m, p) ==
  LET a == wasm_vec_delete(m, "byte", m.heap[p].modname)
      b == wasm_vec_delete(a.m, "byte", m.heap[p].name)
  IN  wasm_delete(b.m, "externtype", m.heap[p].type)

\* ~wasm_exporttype_t
wasm_exporttype_t_dtor(m, p) ==
  LET a == wasm_vec_delete(m, "byte", m.heap[p].name)
  IN  wasm_delete(a.m, "externtype", m.heap[p].type)

\* the variant wasm_externtype_t::copy and ::destroy switch to; the default
\* label is __builtin_unreachable()
ExternDispatch(kind) ==
  CASE kind = WASM_EXTERN_FUNC -> "functype"
    [] kind = WASM_EXTERN_GLOBAL -> "globaltype"
    [] kind = WASM_EXTERN_TABLE -> "tabletype"
    [] kind = WASM_EXTERN_MEMORY -> "memorytype"
    [] OTHER -> "unreachable"

\* T::destroy() { delete this; } with T's destructor
\* a destructor of wasm_ref_t that calls finalizer(host_info), with a
\* finalizer that releases the host information it is given
wasm_ref_t_dtor_finalizing(m, p) ==
  IF m.heap[p].finalizer # NULL
    THEN OperatorDelete(m, m.heap[p].host_info) ELSE m

\* virtual ~wasm_ref_t() {}
wasm_ref_t_dtor(m, p) == m

destroy(m, name, p) ==
  IF m.fault # "none" THEN m
  ELSE IF ~Live(m, p) THEN OperatorDelete(m, p)
  ELSE IF name = "externtype"
    THEN IF ExternDispatch(m.heap[p].kind) = "unreachable"
      THEN Fault(m, "unreachable")
      ELSE destroy(m, ExternDispatch(m.heap[p].kind), p)
  ELSE IF name = "functype" THEN OperatorDelete(wasm_functype_t_dtor(m, p), p)
  ELSE IF name = "importtype"
    THEN OperatorDelete(wasm_importtype_t_dtor(m, p), p)
  ELSE IF name = "exporttype"
    THEN OperatorDelete(wasm_exporttype_t_dtor(m, p), p)
  ELSE IF name = "ref" THEN OperatorDelete(wasm_ref_t_dtor(m, p), p)
  ELSE OperatorDelete(m, p)

\* wasm_functype_t_copy_ctor copying params from results and results from
\* params
wasm_functype_t_copy_ctor_swapped(m, p, src) ==
  LET a == wasm_vec_copy(m, "valtype", m.junk[1], m.heap[src].results)
      b == wasm_vec_copy(a.m, "valtype", m.junk[2], m.heap[src].params)
  IN  [b.m EXCEPT !.heap[p] =
         [tag |-> "functype", kind |-> ExternKindOf("functype"),
          params |-> a.out, results |-> b.out]]

\* wasm_functype_t(const wasm_functype_t *), run on the new object at p
wasm_functype_t_copy_ctor(m, p, src) ==
  LET a == wasm_vec_copy(m, "valtype", m.junk[1], m.heap[src].params)
      b == wasm_vec_copy(a.m, "valtype", m.junk[2], m.heap[src].results)
  IN  [b.m EXCEPT !.heap[p] =
         [tag |-> "functype", kind |-> ExternKindOf("functype"),
          params |-> a.out, results |-> b.out]]

\* wasm_importtype_t(const wasm_importtype_t *)
wasm_importtype_t_copy_ctor(m, p, src) ==
  LET a == wasm_vec_copy(m, "byte", m.junk[1], m.heap[src].modname)
      b == wasm_vec_copy(a.m, "byte", m.junk[2], m.heap[src].name)
      c == wasm_copy(b.m, "externtype", m.heap[src].type)
  IN  [c.m EXCEPT !.heap[p] =
         [tag |-> "importtype", modname |-> a.out, name |-> b.out,
          type |-> c.p]]

\* wasm_exporttype_t(const wasm_exporttype_t *)
wasm_exporttype_t_copy_ctor(m, p, src) ==
  LET b == wasm_vec_copy(m, "byte", m.junk[1], m.heap[src].name)
      c == wasm_copy(b.m, "externtype", m.heap[src].type)
  IN  [c.m EXCEPT !.heap[p] =
         [tag |-> "exporttype", name |-> b.out, type |-> c.p]]

\* the copy constructors that only copy fields
FieldCopy(name, cell) ==
  CASE name = "valtype" -> [tag |-> "valtype", kind |-> cell.kind]
    [] name = "globaltype" ->
         [tag |-> "globaltype", kind |-> ExternKindOf("globaltype"),
          content |-> [kind |-> cell.content.kind],
          mutability |-> cell.mutability]
    [] name = "tabletype" ->
         [tag |-> "tabletype", kind |-> ExternKindOf("tabletype"),
          valtype |-> [kind |-> cell.valtype.kind], limits |-> cell.limits]
    [] name = "memorytype" ->
         [tag |-> "memorytype", kind |-> ExternKindOf("memorytype"),
          limits |-> cell.limits]
    [] name = "ref" ->
         [tag |-> "ref", host_info |-> cell.host_info,
          finalizer |-> cell.finalizer]

\* T::copy() { return new (std::nothrow) T(this); }
copy(m, name, p) ==
  IF m.fault # "none" THEN [m |-> m, p |-> NULL]
  ELSE IF ~Live(m, p) THEN [m |-> Fault(m, BadPointer(p)), p |-> NULL]
  ELSE IF name = "externtype"
    THEN IF ExternDispatch(m.heap[p].kind) = "unreachable"
      THEN [m |-> Fault(m, "unreachable"), p |-> NULL]
      ELSE copy(m, ExternDispatch(m.heap[p].kind), p)
  ELSE LET a == OperatorNew(m, [tag |-> "raw"])
       IN  IF a.p = NULL THEN a
           ELSE IF name = "functype"
             THEN [m |-> wasm_functype_t_copy_ctor(a.m, a.p, p), p |-> a.p]
           ELSE IF name = "importtype"
             THEN [m |-> wasm_importtype_t_copy_ctor(a.m, a.p, p), p |-> a.p]
           ELSE IF name = "exporttype"
             THEN [m |-> wasm_exporttype_t_copy_ctor(a.m, a.p, p), p |-> a.p]
           ELSE [m |-> [a.m EXCEPT !.heap[a.p] = FieldCopy(name, m.heap[p])],
                 p |-> a.p]

(***************************************************************************)
(* The exported constructors.  Each returns the memory, the handle p, and  *)
(* the caller's structs it was given a pointer to, as the call leaves      *)
(* them.                                                                   *)
(***************************************************************************)
wasm_config_new(m) == OperatorNew(m, [tag |-> "config", conf |-> "conf"])

wasm_engine_new(m) == OperatorNew(m, [tag |-> "engine", conf |-> "default"])

wasm_engine_new_with_config(m, conf) ==
  LET a == OperatorNew(m, [tag |-> "raw"])
      c == IF a.p = NULL THEN a.m
           ELSE IF ~Live(a.m, conf) THEN Fault(a.m, BadPointer(conf))
           ELSE [a.m EXCEPT !.heap[a.p] =
                   [tag |-> "engine", conf |-> a.m.heap[conf].conf]]
  IN  [m |-> wasm_delete(c, "config", conf), p |-> a.p]

\* wasm_store_new without the test of engine
wasm_store_new_unchecked(m, engine) ==
  LET a == OperatorNew(m, [tag |-> "raw"])
  IN  IF a.p = NULL THEN a
      ELSE IF ~Live(a.m, engine)
        THEN [m |-> Fault(a.m, BadPointer(engine)), p |-> a.p]
      ELSE [m |-> [a.m EXCEPT !.heap[a.p] =
                     [tag |-> "store", engine |-> engine]],
            p |-> a.p]

wasm_store_new(m, engine) ==
  IF engine # NULL
    THEN LET a == OperatorNew(m, [tag |-> "raw"])
         IN  IF a.p = NULL THEN a
             ELSE IF ~Live(a.m, engine)
               THEN [m |-> Fault(a.m, BadPointer(engine)), p |-> a.p]
             ELSE [m |-> [a.m EXCEPT !.heap[a.p] =
                            [tag |-> "store", engine |-> engine]],
                   p |-> a.p]
    ELSE [m |-> m, p |-> NULL]

wasm_valtype_new(m, kind) ==
  OperatorNew(m, [tag |-> "valtype", kind |-> kind])

\* std::swap(params, *vp); std::swap(results, *vr) on members nothing has
\* been stored in yet
wasm_functype_new(m, params, results) ==
  LET a == OperatorNew(m, [tag |-> "raw"])
  IN  IF a.p = NULL
        THEN [m |-> a.m, p |-> NULL, params |-> params, results |-> results]
      ELSE IF params = NullRef \/ results = NullRef
        THEN [m |-> Fault(a.m, "null_deref"), p |-> a.p,
              params |-> params, results |-> results]
      ELSE [m |-> [a.m EXCEPT !.heap[a.p] =
                     [tag |-> "functype", kind |-> ExternKindOf("functype"),
                      params |-> params, results |-> results]],
            p |-> a.p, params |-> m.junk[1], results |-> m.junk[2]]

wasm_globaltype_new(m, valtype, mutability) ==
  LET a == OperatorNew(m, [tag |-> "raw"])
  IN  IF a.p = NULL THEN a
      ELSE IF ~Live(a.m, valtype)
        THEN [m |-> Fault(a.m, BadPointer(valtype)), p |-> a.p]
      ELSE [m |-> wasm_delete(
                    [a.m EXCEPT !.heap[a.p] =
                       [tag |-> "globaltype",
                        kind |-> ExternKindOf("globaltype"),
                        content |-> [kind |-> a.m.heap[valtype].kind],
                        mutability |-> mutability]],
                    "valtype", valtype),
            p |-> a.p]

wasm_tabletype_new(m, valtype, limits) ==
  LET a == OperatorNew(m, [tag |-> "raw"])
  IN  IF a.p = NULL THEN a
      ELSE IF ~Live(a.m, valtype)
        THEN [m |-> Fault(a.m, BadPointer(valtype)), p |-> a.p]
      ELSE IF limits = NullRef
        THEN [m |-> Fault(a.m, "null_deref"), p |-> a.p]
      ELSE [m |-> wasm_delete(
                    [a.m EXCEPT !.heap[a.p] =
                       [tag |-> "tabletype",
                        kind |-> ExternKindOf("tabletype"),
                        valtype |-> [kind |-> a.m.heap[valtype].kind],
                        limits |-> limits]],
                    "valtype", valtype),
            p |-> a.p]

wasm_memorytype_new(m, limits) ==
  LET a == OperatorNew(m, [tag |-> "raw"])
  IN  IF a.p = NULL THEN a
      ELSE IF limits = NullRef
        THEN [m |-> Fault(a.m, "null_deref"), p |-> a.p]
      ELSE [m |-> [a.m EXCEPT !.heap[a.p] =
                     [tag |-> "memorytype",
                      kind |-> ExternKindOf("memorytype"),
                      limits |-> limits]],
            p |-> a.p]

wasm_importtype_new(m, module, name, externtype) ==
  LET a == OperatorNew(m, [tag |-> "raw"])
  IN  IF a.p = NULL
        THEN [m |-> a.m, p |-> NULL, module |-> module, name |-> name]
      ELSE IF module = NullRef \/ name = NullRef
        THEN [m |-> Fault(a.m, "null_deref"), p |-> a.p,
              module |-> module, name |-> name]
      ELSE [m |-> [a.m EXCEPT !.heap[a.p] =
                     [tag |-> "importtype", modname |-> module,
                      name |-> name, type |-> externtype]],
            p |-> a.p, module |-> m.junk[1], name |-> m.junk[2]]

wasm_exporttype_new(m, name, externtype) ==
  LET a == OperatorNew(m, [tag |-> "raw"])
  IN  IF a.p = NULL THEN [m |-> a.m, p |-> NULL, name |-> name]
      ELSE IF name = NullRef
        THEN [m |-> Fault(a.m, "null_deref"), p |-> a.p, name |-> name]
      ELSE [m |-> [a.m EXCEPT !.heap[a.p] =
                     [tag |-> "exporttype", name |-> name,
                      type |-> externtype]],
            p |-> a.p, name |-> m.junk[1]]

(***************************************************************************)
(* The accessors, WASM_STRUCT_GET_ATTR(name, attr, default, ref_or_none).  *)
(* One that returns the address of a member returns Member(obj, attr), or  *)
(* NullRef for nullptr; h is the heap.                                     *)
(***************************************************************************)
Member(obj, attr) == [obj |-> obj, attr |-> attr]

wasm_valtype_kind(h, valtype) ==
  IF valtype # NULL THEN h[valtype].kind ELSE WASM_I32

\* wasm_functype_params returning the address of the other member
wasm_functype_params_results(h, functype) ==
  IF functype # NULL THEN Member(functype, "results") ELSE NullRef

wasm_functype_params(h, functype) ==
  IF functype # NULL THEN Member(functype, "params") ELSE NullRef

wasm_functype_results(h, functype) ==
  IF functype # NULL THEN Member(functype, "results") ELSE NullRef

wasm_globaltype_content(h, globaltype) ==
  IF globaltype # NULL THEN Member(globaltype, "content") ELSE NullRef

wasm_globaltype_mutability(h, globaltype) ==
  IF globaltype # NULL THEN h[globaltype].mutability ELSE WASM_CONST

wasm_tabletype_element(h, tabletype) ==
  IF tabletype # NULL THEN Member(tabletype, "valtype") ELSE NullRef

wasm_tabletype_limits(h, tabletype) ==
  IF tabletype # NULL THEN Member(tabletype, "limits") ELSE NullRef

wasm_memorytype_limits(h, memorytype) ==
  IF memorytype # NULL THEN Member(memorytype, "limits") ELSE NullRef

\* wasm_externtype_kind returning its default for every argument
wasm_externtype_kind_default(h, externtype) == WASM_EXTERN_FUNC

wasm_externtype_kind(h, externtype) ==
  IF externtype # NULL THEN h[externtype].kind ELSE WASM_EXTERN_FUNC

wasm_importtype_module(h, importtype) ==
  IF importtype # NULL THEN Member(importtype, "modname") ELSE NullRef

wasm_importtype_name(h, importtype) ==
  IF importtype # NULL THEN Member(importtype, "name") ELSE NullRef

wasm_importtype_type(h, importtype) ==
  IF importtype # NULL THEN h[importtype].type ELSE NULL

wasm_exporttype_name(h, exporttype) ==
  IF exporttype # NULL THEN Member(exporttype, "name") ELSE NullRef

wasm_exporttype_type(h, exporttype) ==
  IF exporttype # NULL THEN h[exporttype].type ELSE NULL

wasm_ref_get_host_info(h, inst) ==
  IF inst # NULL THEN h[inst].host_info ELSE NULL

\* wasm_ref_t::same comparing the objects' addresses
wasm_ref_t_same_identity(h, this, lhs) == lhs # NULL /\ lhs = this

\* wasm_ref_t::same
wasm_ref_t_same(h, this, lhs) ==
  lhs # NULL /\ h[lhs].host_info = h[this].host_info
             /\ h[lhs].finalizer = h[this].finalizer

wasm_ref_same(h, inst1, inst2) ==
  inst1 # NULL /\ wasm_ref_t_same(h, inst1, inst2)

\* what a pointer an accessor returned points to
Deref(h, ref) == h[ref.obj][ref.attr]

(***************************************************************************)
(* The casts between a variant and its base.  The base is the variant's    *)
(* only base class and has no virtual members, so it lies at offset 0 of   *)
(* the variant; a static_cast keeps a null pointer null.                   *)
(***************************************************************************)
BaseOffset(name) == 0

\* the implicit conversion in wasm_##name##_as_externtype[_const]
as_externtype(name, p) ==
  IF p = NULL THEN NULL ELSE p + BaseOffset(name)

\* static_cast<[const] wasm_##name##_t *> in wasm_externtype_as_##name[_const]
externtype_as(name, p) ==
  IF p = NULL THEN NULL ELSE p - BaseOffset(name)

(***************************************************************************)
(* The caller.  For every handle type it has an array hnd[name] of         *)
(* MaxLen pointers, and for every vector type the two structs of the       *)
(* unit test, out and copy.  own[name][i] records whether the caller still *)
(* owns what hnd[name][i] points to: it does from the call that returned   *)
(* the pointer until a call that takes it.  No call is made after a fault. *)
(***************************************************************************)
HandleNames ==
  {"config", "engine", "store", "valtype", "functype", "globaltype",
   "tabletype", "memorytype", "externtype", "importtype", "exporttype", "ref"}
VecNames == {"valtype", "byte"}
VecIds == {"out", "copy"}
Slots == 1..MaxLen
\* the arrays of the unit tests: bytes[] = {1, 2, ...} and valtypes[] =
\* {wasm_valtype_new(WASM_I32), wasm_valtype_new(WASM_I64), ...}
TestKinds ==
  <<WASM_I32, WASM_I64, WASM_F32, WASM_F64, WASM_ANYREF, WASM_FUNCREF>>
KindAt(i) == TestKinds[((i - 1) % Len(TestKinds)) + 1]
Bytes == [i \in Slots |-> i]
NoJunk == <<EmptyVec, EmptyVec>>
FailSets(k) == SUBSET (1..k)

Commit(m) ==
  /\ heap' = m.heap
  /\ brk' = m.brk
  /\ released' = m.released
  /\ fault' = m.fault

\* the record of a call
Call(op, name, a, ret, m) ==
  [op |-> op, name |-> name, a |-> a, ret |-> ret, failed |-> m.failed]

\* a caller that uses the handle types hs and the vector types vs
InitCaller(hs, vs) ==
  /\ brk = 1
  /\ fault = "none"
  /\ hnd = [name \in hs |-> [i \in Slots |-> NULL]]
  /\ own = [name \in hs |-> [i \in Slots |-> FALSE]]
  /\ vec = [name \in vs |-> [v \in VecIds |-> EmptyVec]]
  /\ last = NoCall

InitHeap(size) ==
  /\ heap = [p \in 1..size |-> FreeCell]
  /\ released = [p \in 1..size |-> 0]

\* the pointer argument of a call: a slot of the caller's array, or nullptr
Arg(name, s) == IF s = 0 THEN NULL ELSE hnd[name][s]
Owned(name, s) ==
  IF s = 0 THEN TRUE
  ELSE IF hnd[name][s] = NULL THEN TRUE ELSE own[name][s]
Give(name, s) == IF s = 0 THEN own ELSE [own EXCEPT ![name][s] = FALSE]

\* the addresses a call gave to operator delete
Released(m) == {p \in Addr(m) : m.released[p] # released[p]}

\* wasm_##name##_delete(hnd[name][s]), s = 0 for wasm_##name##_delete(nullptr)
Delete(name, s) ==
  /\ fault = "none"
  /\ Owned(name, s)
  /\ LET m == wasm_delete(Mem({}, "abort", NoJunk), name, Arg(name, s))
     IN  /\ Commit(m)
         /\ last' = Call("delete", name, s, Released(m), m)
  /\ own' = Give(name, s)
  /\ UNCHANGED <<hnd, vec>>

\* hnd[name][d] = wasm_##name##_copy(hnd[name][s])
Copy(name, s, d) ==
  /\ fault = "none"
  /\ Owned(name, s)
  /\ ~own[name][d]
  /\ \E fails \in FailSets(1) :
       LET r == wasm_copy(Mem(fails, "abort", NoJunk), name, Arg(name, s))
       IN  /\ Commit(r.m)
           /\ hnd' = [hnd EXCEPT ![name][d] = r.p]
           /\ own' = [own EXCEPT ![name][d] = (r.p # NULL)]
           /\ last' = Call("copy", name, s, r.p, r.m)
  /\ UNCHANGED vec

\* valtypes[d] = wasm_valtype_new(kind)
ValtypeNew(d, kind) ==
  /\ fault = "none"
  /\ ~own["valtype"][d]
  /\ \E fails \in FailSets(1) :
       LET r == wasm_valtype_new(Mem(fails, "abort", NoJunk), kind)
       IN  /\ Commit(r.m)
           /\ hnd' = [hnd EXCEPT !["valtype"][d] = r.p]
           /\ own' = [own EXCEPT !["valtype"][d] = (r.p # NULL)]
           /\ last' = Call("new", "valtype", kind, r.p, r.m)
  /\ UNCHANGED vec

\* the vector argument of a call: one of the caller's structs, or nullptr
VecArg(name, v) == IF v = "null" THEN NullRef ELSE vec[name][v]
VecArgs == VecIds \cup {"null"}
Store(name, v, val) ==
  IF v = "null" THEN vec ELSE [vec EXCEPT ![name][v] = val]

\* wasm_##name##_vec_new_empty(&v)
VecNewEmpty(name, v) ==
  /\ fault = "none"
  /\ LET r == wasm_vec_new_empty(Mem({}, "abort", NoJunk), name,
                                 VecArg(name, v))
     IN  /\ Commit(r.m)
         /\ vec' = Store(name, v, r.out)
         /\ last' = Call("vec_new_empty", name, v, NULL, r.m)
  /\ UNCHANGED <<hnd, own>>

\* wasm_##name##_vec_new_uninitialized(&v, size)
VecNewUninitialized(name, v, size) ==
  /\ fault = "none"
  /\ \E fails \in FailSets(1) :
       LET r == wasm_vec_new_uninitialized(Mem(fails, "abort", NoJunk), name,
                                           VecArg(name, v), size)
       IN  /\ Commit(r.m)
           /\ vec' = Store(name, v, r.out)
           /\ last' = Call("vec_new_uninitialized", name, v, NULL, r.m)
  /\ UNCHANGED <<hnd, own>>

\* wasm_##name##_vec_new(&v, size, hnd[name]) on a pointer vector: the
\* elements are the first size pointers of the caller's array
PtrVecNew(name, v, size) ==
  /\ fault = "none"
  /\ \A i \in 1..size : Owned(name, i)
  /\ \E fails \in FailSets(1) :
       LET r == wasm_vec_new(Mem(fails, "abort", NoJunk), name,
                             VecArg(name, v), size, Array(hnd[name]))
       IN  /\ Commit(r.m)
           /\ vec' = Store(name, v, r.out)
           /\ hnd' = [hnd EXCEPT ![name] = r.vals.elems]
           /\ own' = IF v = "null" THEN own
                      ELSE [own EXCEPT ![name] =
                              [i \in Slots |-> @[i] /\ i > size]]
           /\ last' = Call("vec_new", name, v, size, r.m)

\* wasm_byte_vec_new(&v, size, vals)
ByteVecNew(v, size, vals) ==
  /\ fault = "none"
  /\ \E fails \in FailSets(1) :
       LET r == wasm_vec_new(Mem(fails, "abort", NoJunk), "byte",
                             VecArg("byte", v), size, vals)
       IN  /\ Commit(r.m)
           /\ vec' = Store("byte", v, r.out)
           /\ last' = Call("vec_new", "byte", v, size, r.m)
  /\ UNCHANGED <<hnd, own>>

\* wasm_##name##_vec_copy(&out, &in) on two different structs
VecCopy(name, out, in) ==
  /\ fault = "none"
  /\ out # in
  /\ \E fails \in FailSets(IF name \in ScalarNames \/ in = "null" THEN 1
                            ELSE 1 + vec[name][in].size) :
       LET r == wasm_vec_copy(Mem(fails, "abort", NoJunk), name,
                              VecArg(name, out), VecArg(name, in))
       IN  /\ Commit(r.m)
           /\ vec' = Store(name, out, r.out)
           /\ last' = Call("vec_copy", name, out, in, r.m)
  /\ UNCHANGED <<hnd, own>>

\* wasm_##name##_vec_delete(&v)
VecDelete(name, v) ==
  /\ fault = "none"
  /\ LET r == wasm_vec_delete(Mem({}, "abort", NoJunk), name, VecArg(name, v))
     IN  /\ Commit(r.m)
         /\ vec' = Store(name, v, r.v)
         /\ last' = Call("vec_delete", name, v, Released(r.m), r.m)
  /\ UNCHANGED <<hnd, own>>

\* wasm_##name##_vec_delete(&v) right after wasm_##name##_vec_delete(&v), as
\* WASM_DECLARE_VEC_TEST ends
VecDeleteAgain(name, v) ==
  /\ fault = "none"
  /\ last.op \in {"vec_delete", "vec_delete_again"}
  /\ last.name = name /\ last.a = v
  /\ LET r == wasm_vec_delete(Mem({}, "abort", NoJunk), name, VecArg(name, v))
     IN  /\ Commit(r.m)
         /\ vec' = Store(name, v, r.v)
         /\ last' = Call("vec_delete_again", name, v, Released(r.m), r.m)
  /\ UNCHANGED <<hnd, own>>

(***************************************************************************)
(* SpecVec: the value types and the two vector families.  The caller       *)
(* passes only pointers it owns or nullptr, stores a returned pointer in   *)
(* the first free entry of its array, and constructs over a vector that    *)
(* still holds a buffer (which leaks the buffer) at most while fewer than  *)
(* MaxLeak buffers have leaked.                                            *)
(***************************************************************************)
\* a run works on one vector type, as each unit test does: wasm_byte_vec_t
\* or wasm_valtype_vec_t with the wasm_valtype_t handles to fill it
InitVec ==
  /\ InitHeap(VecHeap)
  /\ \/ InitCaller({"valtype"}, {"valtype"})
     \/ InitCaller({}, {"byte"})

\* the first entry of the caller's array that holds nothing the caller owns
FirstFree(name, d) ==
  /\ ~own[name][d]
  /\ \A i \in 1..(d - 1) : own[name][i]

\* the buffers no vector struct of the caller points to any more
Leaked ==
  {p \in DOMAIN heap :
     /\ heap[p].tag = "buf"
     /\ \A name \in DOMAIN vec, v \in VecIds : vec[name][v].data # p}

\* whether the caller may construct a vector into struct v
Into(name, v) ==
  IF v = "null" THEN TRUE
  ELSE IF vec[name][v].data = NULL THEN TRUE
  ELSE Cardinality(Leaked) < MaxLeak

ValtypeStep ==
  /\ "valtype" \in DOMAIN hnd
  /\ \/ \E d \in Slots : FirstFree("valtype", d) /\ ValtypeNew(d, KindAt(d))
     \/ \E s \in Slots, d \in Slots :
          FirstFree("valtype", d) /\ Copy("valtype", s, d)
     \/ \E s \in Slots : Delete("valtype", s)

VecStep ==
  \E name \in DOMAIN vec :
    \/ \E v \in VecIds : Into(name, v) /\ VecNewEmpty(name, v)
    \/ \E v \in VecIds, size \in 0..MaxLen :
         Into(name, v) /\ VecNewUninitialized(name, v, size)
    \/ /\ name \notin ScalarNames
       /\ \E v \in VecIds, size \in 0..MaxLen :
            Into(name, v) /\ PtrVecNew(name, v, size)
    \/ /\ name = "byte"
       /\ \E v \in VecIds, size \in 0..MaxLen :
            Into(name, v) /\ ByteVecNew(v, size, Array(Bytes))
    \/ \E out \in VecIds, in \in VecIds :
         Into(name, out) /\ VecCopy(name, out, in)
    \/ \E v \in VecIds : VecDelete(name, v)
    \/ \E v \in VecIds : VecDeleteAgain(name, v)

NextVec == ValtypeStep \/ VecStep
SpecVec == InitVec /\ [][NextVec]_vars

(***************************************************************************)
(* SpecStore: configurations, engines and stores, as TEST(APIWasmCTest,    *)
(* Store) uses them.  The caller passes only pointers it owns or nullptr.  *)
(***************************************************************************)
\* addresses the allocator hands out in SpecStore
StoreHeap == 4

InitStore ==
  /\ InitHeap(StoreHeap)
  /\ InitCaller({"config", "engine", "store"}, {})

\* hnd["config"][d] = wasm_config_new()
ConfigNew(d) ==
  /\ fault = "none"
  /\ ~own["config"][d]
  /\ \E fails \in FailSets(1) :
       LET r == wasm_config_new(Mem(fails, "abort", NoJunk))
       IN  /\ Commit(r.m)
           /\ hnd' = [hnd EXCEPT !["config"][d] = r.p]
           /\ own' = [own EXCEPT !["config"][d] = (r.p # NULL)]
           /\ last' = Call("new", "config", NULL, r.p, r.m)
  /\ UNCHANGED vec

\* hnd["engine"][d] = wasm_engine_new()
EngineNew(d) ==
  /\ fault = "none"
  /\ ~own["engine"][d]
  /\ \E fails \in FailSets(1) :
       LET r == wasm_engine_new(Mem(fails, "abort", NoJunk))
       IN  /\ Commit(r.m)
           /\ hnd' = [hnd EXCEPT !["engine"][d] = r.p]
           /\ own' = [own EXCEPT !["engine"][d] = (r.p # NULL)]
           /\ last' = Call("new", "engine", NULL, r.p, r.m)
  /\ UNCHANGED vec

\* hnd["engine"][d] = wasm_engine_new_with_config(hnd["config"][s]), which
\* takes the configuration
EngineNewWithConfig(d, s) ==
  /\ fault = "none"
  /\ ~own["engine"][d]
  /\ own["config"][s]
  /\ \E fails \in FailSets(1) :
       LET r == wasm_engine_new_with_config(Mem(fails, "abort", NoJunk),
                                            hnd["config"][s])
       IN  /\ Commit(r.m)
           /\ hnd' = [hnd EXCEPT !["engine"][d] = r.p]
           /\ own' = [own EXCEPT !["engine"][d] = (r.p # NULL),
                                 !["config"][s] = FALSE]
           /\ last' = Call("new_with_config", "engine", s, r.p, r.m)
  /\ UNCHANGED vec

\* hnd["store"][d] = wasm_store_new(hnd["engine"][s]), s = 0 for
\* wasm_store_new(nullptr); the engine stays the caller's
StoreNew(d, s) ==
  /\ fault = "none"
  /\ ~own["store"][d]
  /\ Owned("engine", s)
  /\ \E fails \in FailSets(1) :
       LET r == wasm_store_new(Mem(fails, "abort", NoJunk), Arg("engine", s))
       IN  /\ Commit(r.m)
           /\ hnd' = [hnd EXCEPT !["store"][d] = r.p]
           /\ own' = [own EXCEPT !["store"][d] = (r.p # NULL)]
           /\ last' = Call("new", "store", s, r.p, r.m)
  /\ UNCHANGED vec

NextStore ==
  \/ \E d \in Slots : FirstFree("config", d) /\ ConfigNew(d)
  \/ \E d \in Slots : FirstFree("engine", d) /\ EngineNew(d)
  \/ \E d \in Slots, s \in Slots :
       FirstFree("engine", d) /\ EngineNewWithConfig(d, s)
  \/ \E d \in Slots, s \in Slots \cup {0} :
       FirstFree("store", d) /\ StoreNew(d, s)
  \/ \E name \in {"config", "engine", "store"}, s \in Slots :
       own[name][s] /\ Delete(name, s)

SpecStore == InitStore /\ [][NextStore]_vars

(***************************************************************************)
(* SpecRef: references.  No exported function constructs a wasm_ref_t, so  *)
(* a run starts with the references wasm_ref_t(host, fin) has constructed, *)
(* one in each entry of the caller's array.                                *)
(***************************************************************************)
\* addresses the allocator hands out in SpecRef
RefHeap == 3
\* the values of void *host_info and of void (*finalizer)(void *)
Hosts == {NULL, 1}
Finalizers == {NULL, 1}

\* wasm_ref_t(void *host, void (*fin)(void *))
wasm_ref_t_ctor(host, fin) ==
  [tag |-> "ref", host_info |-> host, finalizer |-> fin]

InitRef ==
  /\ \E cells \in [Slots -> {wasm_ref_t_ctor(host, fin) :
                              host \in Hosts, fin \in Finalizers}] :
       heap = [p \in 1..RefHeap |-> IF p \in Slots THEN cells[p] ELSE FreeCell]
  /\ released = [p \in 1..RefHeap |-> 0]
  /\ brk = MaxLen + 1
  /\ fault = "none"
  /\ hnd = [name \in {"ref"} |-> [i \in Slots |-> i]]
  /\ own = [name \in {"ref"} |-> [i \in Slots |-> TRUE]]
  /\ vec = [name \in {} |-> [v \in VecIds |-> EmptyVec]]
  /\ last = NoCall

\* wasm_ref_set_host_info storing a null finalizer as well
wasm_ref_set_host_info_clearing(m, inst, info) ==
  IF inst # NULL
    THEN IF ~Live(m, inst) THEN Fault(m, BadPointer(inst))
         ELSE [m EXCEPT !.heap[inst].host_info = info,
                        !.heap[inst].finalizer = NULL]
    ELSE m

\* wasm_ref_set_host_info(inst, info)
wasm_ref_set_host_info(m, inst, info) ==
  IF inst # NULL
    THEN IF ~Live(m, inst) THEN Fault(m, BadPointer(inst))
         ELSE [m EXCEPT !.heap[inst].host_info = info]
    ELSE m

\* wasm_ref_set_host_info_with_finalizer(inst, info, fin)
wasm_ref_set_host_info_with_finalizer(m, inst, info, fin) ==
  IF inst # NULL
    THEN IF ~Live(m, inst) THEN Fault(m, BadPointer(inst))
         ELSE [m EXCEPT !.heap[inst].host_info = info,
                        !.heap[inst].finalizer = fin]
    ELSE m

\* wasm_ref_same(hnd["ref"][s1], hnd["ref"][s2]), 0 for nullptr
RefSame(s1, s2) ==
  /\ fault = "none"
  /\ Owned("ref", s1) /\ Owned("ref", s2)
  /\ last' = Call("wasm_ref_same", "ref", <<s1, s2>>,
                  wasm_ref_same(heap, Arg("ref", s1), Arg("ref", s2)),
                  Mem({}, "abort", NoJunk))
  /\ UNCHANGED <<heap, brk, released, fault, hnd, own, vec>>

\* wasm_ref_set_host_info(hnd["ref"][s], info), 0 for nullptr; the record
\* of a setter's call holds the values set in place of a result
RefSetHostInfo(s, info) ==
  /\ fault = "none"
  /\ Owned("ref", s)
  /\ LET m == wasm_ref_set_host_info(Mem({}, "abort", NoJunk),
                                     Arg("ref", s), info)
     IN  /\ Commit(m)
         /\ last' = Call("wasm_ref_set_host_info", "ref", s, info, m)
  /\ UNCHANGED <<hnd, own, vec>>

\* wasm_ref_set_host_info_with_finalizer(hnd["ref"][s], info, fin)
RefSetHostInfoWithFinalizer(s, info, fin) ==
  /\ fault = "none"
  /\ Owned("ref", s)
  /\ LET m == wasm_ref_set_host_info_with_finalizer(
                Mem({}, "abort", NoJunk), Arg("ref", s), info, fin)
     IN  /\ Commit(m)
         /\ last' = Call("wasm_ref_set_host_info_with_finalizer", "ref", s,
                         <<info, fin>>, m)
  /\ UNCHANGED <<hnd, own, vec>>

NextRef ==
  \/ \E s1 \in Slots \cup {0}, s2 \in Slots \cup {0} : RefSame(s1, s2)
  \/ \E s \in Slots, info \in Hosts : own["ref"][s] /\ RefSetHostInfo(s, info)
  \/ \E s \in Slots, info \in Hosts, fin \in Finalizers :
       own["ref"][s] /\ RefSetHostInfoWithFinalizer(s, info, fin)
  \/ \E s \in Slots, d \in Slots :
       own["ref"][s] /\ FirstFree("ref", d) /\ Copy("ref", s, d)
  \/ \E s \in Slots : own["ref"][s] /\ Delete("ref", s)

SpecRef == InitRef /\ [][NextRef]_vars

(***************************************************************************)
(* SpecType: the function, global, table, memory, import and export        *)
(* types, their accessors and the casts to and from wasm_externtype_t.  A  *)
(* run works on one of these types, as each unit test does, with the       *)
(* value types, limits, names and extern types its constructor takes.      *)
(* The caller passes only pointers it owns, constructs a vector only into  *)
(* a struct that holds no buffer, and deletes only a vector that holds     *)
(* one.                                                                    *)
(***************************************************************************)
\* addresses the allocator hands out in SpecType
TypeHeap == 4
\* what the caller constructs the object for entry i of its array from, as
\* the unit tests do: limits {i, i + 1}, WASM_CONST and WASM_VAR in turn
LimitsAt(i) == [min |-> i, max |-> i + 1]
MutabilityAt(i) == IF i % 2 = 1 THEN WASM_CONST ELSE WASM_VAR
Junk == JunkVecs \X JunkVecs

InitType ==
  /\ InitHeap(TypeHeap)
  /\ \/ InitCaller({"valtype", "functype"}, {"valtype"})
     \/ InitCaller({"valtype", "globaltype"}, {})
     \/ InitCaller({"valtype", "tabletype"}, {})
     \/ InitCaller({"memorytype"}, {})
     \/ InitCaller({"memorytype", "importtype"}, {"byte"})
     \/ InitCaller({"memorytype", "exporttype"}, {"byte"})

\* the type a run works on
Subject ==
  CHOOSE name \in DOMAIN hnd :
    \A other \in DOMAIN hnd \ {name} : other \in {"valtype", "memorytype"}

\* whether vector struct v holds no buffer
Vacant(name, v) == vec[name][v].data \notin DOMAIN heap

\* hnd["functype"][d] = wasm_functype_new(&out, &copy)
FunctypeNew(d) ==
  /\ fault = "none"
  /\ ~own["functype"][d]
  /\ \E fails \in FailSets(1), junk \in Junk :
       LET r == wasm_functype_new(Mem(fails, "abort", junk),
                                  vec["valtype"]["out"],
                                  vec["valtype"]["copy"])
       IN  /\ Commit(r.m)
           /\ hnd' = [hnd EXCEPT !["functype"][d] = r.p]
           /\ own' = [own EXCEPT !["functype"][d] = (r.p # NULL)]
           /\ vec' = [vec EXCEPT !["valtype"]["out"] = r.params,
                                 !["valtype"]["copy"] = r.results]
           /\ last' = Call("new", "functype", NULL, r.p, r.m)

\* hnd["globaltype"][d] = wasm_globaltype_new(hnd["valtype"][s], mutability),
\* which takes the value type
GlobaltypeNew(d, s, mutability) ==
  /\ fault = "none"
  /\ ~own["globaltype"][d]
  /\ own["valtype"][s]
  /\ \E fails \in FailSets(1) :
       LET r == wasm_globaltype_new(Mem(fails, "abort", NoJunk),
                                    hnd["valtype"][s], mutability)
       IN  /\ Commit(r.m)
           /\ hnd' = [hnd EXCEPT !["globaltype"][d] = r.p]
           /\ own' = [own EXCEPT !["globaltype"][d] = (r.p # NULL),
                                 !["valtype"][s] = FALSE]
           /\ last' = Call("new", "globaltype",
                           [valtype |-> s, mutability |-> mutability],
                           r.p, r.m)
  /\ UNCHANGED vec

\* hnd["tabletype"][d] = wasm_tabletype_new(hnd["valtype"][s], &limits)
TabletypeNew(d, s, limits) ==
  /\ fault = "none"
  /\ ~own["tabletype"][d]
  /\ own["valtype"][s]
  /\ \E fails \in FailSets(1) :
       LET r == wasm_tabletype_new(Mem(fails, "abort", NoJunk),
                                   hnd["valtype"][s], limits)
       IN  /\ Commit(r.m)
           /\ hnd' = [hnd EXCEPT !["tabletype"][d] = r.p]
           /\ own' = [own EXCEPT !["tabletype"][d] = (r.p # NULL),
                                 !["valtype"][s] = FALSE]
           /\ last' = Call("new", "tabletype",
                           [valtype |-> s, limits |-> limits], r.p, r.m)
  /\ UNCHANGED vec

\* hnd["memorytype"][d] = wasm_memorytype_new(&limits)
MemorytypeNew(d, limits) ==
  /\ fault = "none"
  /\ ~own["memorytype"][d]
  /\ \E fails \in FailSets(1) :
       LET r == wasm_memorytype_new(Mem(fails, "abort", NoJunk), limits)
       IN  /\ Commit(r.m)
           /\ hnd' = [hnd EXCEPT !["memorytype"][d] = r.p]
           /\ own' = [own EXCEPT !["memorytype"][d] = (r.p # NULL)]
           /\ last' = Call("new", "memorytype", [limits |-> limits], r.p, r.m)
  /\ UNCHANGED vec

\* hnd["importtype"][d] = wasm_importtype_new(&out, &copy,
\* wasm_memorytype_as_externtype(hnd["memorytype"][s])), which takes the
\* extern type
ImporttypeNew(d, s) ==
  /\ fault = "none"
  /\ ~own["importtype"][d]
  /\ own["memorytype"][s]
  /\ \E fails \in FailSets(1), junk \in Junk :
       LET r == wasm_importtype_new(
                  Mem(fails, "abort", junk), vec["byte"]["out"],
                  vec["byte"]["copy"],
                  as_externtype("memorytype", hnd["memorytype"][s]))
       IN  /\ Commit(r.m)
           /\ hnd' = [hnd EXCEPT !["importtype"][d] = r.p]
           /\ own' = [own EXCEPT !["importtype"][d] = (r.p # NULL),
                                 !["memorytype"][s] = FALSE]
           /\ vec' = [vec EXCEPT !["byte"]["out"] = r.module,
                                 !["byte"]["copy"] = r.name]
           /\ last' = Call("new", "importtype", [externtype |-> s], r.p, r.m)

\* hnd["exporttype"][d] = wasm_exporttype_new(&out,
\* wasm_memorytype_as_externtype(hnd["memorytype"][s]))
ExporttypeNew(d, s) ==
  /\ fault = "none"
  /\ ~own["exporttype"][d]
  /\ own["memorytype"][s]
  /\ \E fails \in FailSets(1), junk \in Junk :
       LET r == wasm_exporttype_new(
                  Mem(fails, "abort", junk), vec["byte"]["out"],
                  as_externtype("memorytype", hnd["memorytype"][s]))
       IN  /\ Commit(r.m)
           /\ hnd' = [hnd EXCEPT !["exporttype"][d] = r.p]
           /\ own' = [own EXCEPT !["exporttype"][d] = (r.p # NULL),
                                 !["memorytype"][s] = FALSE]
           /\ vec' = [vec EXCEPT !["byte"]["out"] = r.name]
           /\ last' = Call("new", "exporttype", [externtype |-> s], r.p, r.m)

\* the exported accessors and the type of the object each is called on
AccessorNames ==
  {"wasm_valtype_kind", "wasm_functype_params", "wasm_functype_results",
   "wasm_globaltype_content", "wasm_globaltype_mutability",
   "wasm_tabletype_element", "wasm_tabletype_limits",
   "wasm_memorytype_limits", "wasm_importtype_module",
   "wasm_importtype_name", "wasm_importtype_type", "wasm_exporttype_name",
   "wasm_exporttype_type", "wasm_ref_get_host_info"}

Receiver(op) ==
  CASE op = "wasm_valtype_kind" -> "valtype"
    [] op \in {"wasm_functype_params", "wasm_functype_results"} -> "functype"
    [] op \in {"wasm_globaltype_content", "wasm_globaltype_mutability"} ->
         "globaltype"
    [] op \in {"wasm_tabletype_element", "wasm_tabletype_limits"} ->
         "tabletype"
    [] op = "wasm_memorytype_limits" -> "memorytype"
    [] op \in {"wasm_importtype_module", "wasm_importtype_name",
               "wasm_importtype_type"} -> "importtype"
    [] op \in {"wasm_exporttype_name", "wasm_exporttype_type"} -> "exporttype"
    [] op = "wasm_ref_get_host_info" -> "ref"

\* what accessor op returns for p in heap h
Access(h, op, p) ==
  CASE op = "wasm_valtype_kind" -> wasm_valtype_kind(h, p)
    [] op = "wasm_functype_params" -> wasm_functype_params(h, p)
    [] op = "wasm_functype_results" -> wasm_functype_results(h, p)
    [] op = "wasm_globaltype_content" -> wasm_globaltype_content(h, p)
    [] op = "wasm_globaltype_mutability" -> wasm_globaltype_mutability(h, p)
    [] op = "wasm_tabletype_element" -> wasm_tabletype_element(h, p)
    [] op = "wasm_tabletype_limits" -> wasm_tabletype_limits(h, p)
    [] op = "wasm_memorytype_limits" -> wasm_memorytype_limits(h, p)
    [] op = "wasm_importtype_module" -> wasm_importtype_module(h, p)
    [] op = "wasm_importtype_name" -> wasm_importtype_name(h, p)
    [] op = "wasm_importtype_type" -> wasm_importtype_type(h, p)
    [] op = "wasm_exporttype_name" -> wasm_exporttype_name(h, p)
    [] op = "wasm_exporttype_type" -> wasm_exporttype_type(h, p)
    [] op = "wasm_ref_get_host_info" -> wasm_ref_get_host_info(h, p)

\* a call of accessor op on hnd[Receiver(op)][s], s = 0 for nullptr
Get(op, s) ==
  /\ fault = "none"
  /\ Receiver(op) \in DOMAIN hnd
  /\ Owned(Receiver(op), s)
  /\ last' = Call(op, Receiver(op), s,
                  Access(heap, op, Arg(Receiver(op), s)),
                  Mem({}, "abort", NoJunk))
  /\ UNCHANGED <<heap, brk, released, fault, hnd, own, vec>>

\* e = wasm_##name##_as_externtype[_const](hnd[name][s]), then
\* wasm_externtype_as_##name[_const](e) and wasm_externtype_kind(e);
\* s = 0 for nullptr
Cast(name, s) ==
  /\ fault = "none"
  /\ name \in ExternNames \cap DOMAIN hnd
  /\ Owned(name, s)
  /\ LET e == as_externtype(name, Arg(name, s))
     IN  last' = Call("cast", name, s,
                      [up |-> e, back |-> externtype_as(name, e),
                       kind |-> wasm_externtype_kind(heap, e)],
                      Mem({}, "abort", NoJunk))
  /\ UNCHANGED <<heap, brk, released, fault, hnd, own, vec>>

\* whether vector struct v is one the caller may hand to a constructor
Valid(name, v) == vec[name][v] = EmptyVec \/ ~Vacant(name, v)

VecTypeStep ==
  \/ /\ "valtype" \in DOMAIN vec
     /\ \E v \in VecIds, size \in 0..MaxLen :
          Vacant("valtype", v) /\ PtrVecNew("valtype", v, size)
  \/ /\ "byte" \in DOMAIN vec
     /\ \E v \in VecIds, size \in 0..MaxLen :
          Vacant("byte", v) /\ ByteVecNew(v, size, Array(Bytes))
  \/ \E name \in DOMAIN vec, v \in VecIds :
       ~Vacant(name, v) /\ VecDelete(name, v)

NewTypeStep ==
  \/ /\ "valtype" \in DOMAIN hnd
     /\ \E d \in Slots : FirstFree("valtype", d) /\ ValtypeNew(d, KindAt(d))
  \/ /\ "functype" \in DOMAIN hnd
     /\ Valid("valtype", "out") /\ Valid("valtype", "copy")
     /\ \E d \in Slots : FirstFree("functype", d) /\ FunctypeNew(d)
  \/ /\ "globaltype" \in DOMAIN hnd
     /\ \E d \in Slots, s \in Slots :
          FirstFree("globaltype", d) /\ GlobaltypeNew(d, s, MutabilityAt(d))
  \/ /\ "tabletype" \in DOMAIN hnd
     /\ \E d \in Slots, s \in Slots :
          FirstFree("tabletype", d) /\ TabletypeNew(d, s, LimitsAt(d))
  \/ /\ "memorytype" \in DOMAIN hnd
     /\ \E d \in Slots :
          FirstFree("memorytype", d) /\ MemorytypeNew(d, LimitsAt(d))
  \/ /\ "importtype" \in DOMAIN hnd
     /\ Valid("byte", "out") /\ Valid("byte", "copy")
     /\ \E d \in Slots, s \in Slots :
          FirstFree("importtype", d) /\ ImporttypeNew(d, s)
  \/ /\ "exporttype" \in DOMAIN hnd
     /\ Valid("byte", "out")
     /\ \E d \in Slots, s \in Slots :
          FirstFree("exporttype", d) /\ ExporttypeNew(d, s)

NextType ==
  \/ VecTypeStep
  \/ NewTypeStep
  \/ \E s \in Slots, d \in Slots :
       own[Subject][s] /\ FirstFree(Subject, d) /\ Copy(Subject, s, d)
  \/ \E name \in DOMAIN hnd, s \in Slots : own[name][s] /\ Delete(name, s)
  \/ \E op \in AccessorNames, s \in Slots :
       Receiver(op) = Subject /\ own[Subject][s] /\ Get(op, s)
  \/ \E s \in Slots \cup {0} : Cast(Subject, s)

SpecType == InitType /\ [][NextType]_vars

(***************************************************************************)
(* SpecNull: calls with nullptr for the object, made while objects of the  *)
(* type exist.  A run works on the types of one unit test.                 *)
(***************************************************************************)
\* the types that have wasm_##name##_copy (WASM_DECLARE_COPY_IMPL)
CopyNames == HandleNames \ {"config", "engine", "store"}

InitApi == InitType \/ InitStore \/ InitRef

StoreNewStep ==
  /\ "store" \in DOMAIN hnd
  /\ \/ \E d \in Slots : FirstFree("config", d) /\ ConfigNew(d)
     \/ \E d \in Slots : FirstFree("engine", d) /\ EngineNew(d)
     \/ \E d \in Slots, s \in Slots :
          FirstFree("engine", d) /\ EngineNewWithConfig(d, s)
     \/ \E d \in Slots, s \in Slots :
          FirstFree("store", d) /\ own["engine"][s] /\ StoreNew(d, s)

NullStep ==
  \/ \E name \in DOMAIN hnd : Delete(name, 0)
  \/ \E name \in DOMAIN hnd \cap CopyNames, d \in Slots :
       FirstFree(name, d) /\ Copy(name, 0, d)
  \/ \E op \in AccessorNames : Get(op, 0)
  \/ \E name \in DOMAIN hnd : Cast(name, 0)

NextNull == NewTypeStep \/ StoreNewStep \/ NullStep

SpecNull == InitApi /\ [][NextNull]_vars

(***************************************************************************)
(* SpecTwice: a caller that deletes an object and then deletes it again.   *)
(* Deleting a released object is undefined: the allocator either aborts    *)
(* the process or goes on.                                                 *)
(***************************************************************************)
TwiceHeap == 3

InitTwice ==
  \/ /\ InitHeap(TwiceHeap)
     /\ \/ InitCaller({"valtype", "functype"}, {"valtype"})
        \/ InitCaller({"valtype", "globaltype"}, {})
        \/ InitCaller({"valtype", "tabletype"}, {})
        \/ InitCaller({"memorytype", "importtype"}, {"byte"})
        \/ InitCaller({"memorytype", "exporttype"}, {"byte"})
        \/ InitCaller({"config", "engine", "store"}, {})
  \/ InitRef

\* wasm_##name##_delete(hnd[name][s]) right after
\* wasm_##name##_delete(hnd[name][s])
DeleteAgain(name, s) ==
  /\ fault = "none"
  /\ last.op = "delete" /\ last.name = name /\ last.a = s
  /\ \E ub \in {"abort", "silent"} :
       LET m == wasm_delete(Mem({}, ub, NoJunk), name, Arg(name, s))
       IN  /\ Commit(m)
           /\ last' = Call("delete_again", name, s, Released(m), m)
  /\ UNCHANGED <<hnd, own, vec>>

NextTwice ==
  \/ VecTypeStep
  \/ NewTypeStep
  \/ StoreNewStep
  \/ \E name \in DOMAIN hnd, s \in Slots \cup {0} : Delete(name, s)
  \/ \E name \in DOMAIN hnd, s \in Slots \cup {0} : DeleteAgain(name, s)
  \/ \E name \in DOMAIN vec, v \in VecIds : VecDeleteAgain(name, v)

SpecTwice == InitTwice /\ [][NextTwice]_vars

(***************************************************************************)
(* SpecNullArg: constructors called with nullptr for one of their object   *)
(* arguments and valid values for the others.                              *)
(***************************************************************************)
\* the number of pointer arguments of wasm_##name##_new[_with_config] that
\* the constructor reads through
NullArgs(name) ==
  CASE name = "engine" -> 1
    [] name = "functype" -> 2
    [] name = "globaltype" -> 1
    [] name = "tabletype" -> 2
    [] name = "memorytype" -> 1
    [] name = "importtype" -> 2
    [] name = "exporttype" -> 1
    [] OTHER -> 0

\* what the caller needs for the other arguments of the call
NullArgReady(name, k) ==
  CASE name = "functype" -> Valid("valtype", "out") /\ Valid("valtype", "copy")
    [] name = "tabletype" -> k = 1 \/ own["valtype"][1]
    [] name = "importtype" ->
         /\ Valid("byte", "out") /\ Valid("byte", "copy")
         /\ own["memorytype"][1]
    [] name = "exporttype" -> own["memorytype"][1]
    [] OTHER -> TRUE

\* the constructor of name with nullptr for its k-th pointer argument
wasm_new_with_null(m, name, d, k) ==
  CASE name = "engine" -> wasm_engine_new_with_config(m, NULL)
    [] name = "functype" ->
         wasm_functype_new(
           m, IF k = 1 THEN NullRef ELSE vec["valtype"]["out"],
           IF k = 2 THEN NullRef ELSE vec["valtype"]["copy"])
    [] name = "globaltype" -> wasm_globaltype_new(m, NULL, MutabilityAt(d))
    [] name = "tabletype" ->
         IF k = 1 THEN wasm_tabletype_new(m, NULL, LimitsAt(d))
         ELSE wasm_tabletype_new(m, hnd["valtype"][1], NullRef)
    [] name = "memorytype" -> wasm_memorytype_new(m, NullRef)
    [] name = "importtype" ->
         wasm_importtype_new(
           m, IF k = 1 THEN NullRef ELSE vec["byte"]["out"],
           IF k = 2 THEN NullRef ELSE vec["byte"]["copy"],
           as_externtype("memorytype", hnd["memorytype"][1]))
    [] name = "exporttype" ->
         wasm_exporttype_new(
           m, NullRef, as_externtype("memorytype", hnd["memorytype"][1]))

\* hnd[name][d] = wasm_##name##_new(...) with nullptr for the k-th pointer
\* argument
NewWithNull(name, d, k) ==
  /\ fault = "none"
  /\ ~own[name][d]
  /\ NullArgReady(name, k)
  /\ \E fails \in FailSets(1) :
       LET r == wasm_new_with_null(Mem(fails, "abort", NoJunk), name, d, k)
       IN  /\ Commit(r.m)
           /\ hnd' = [hnd EXCEPT ![name][d] = r.p]
           /\ own' = [own EXCEPT ![name][d] =
                        (r.p # NULL /\ r.m.fault = "none")]
           /\ last' = Call("new_with_null", name, k, r.p, r.m)
  /\ UNCHANGED vec

NextNullArg ==
  \/ VecTypeStep
  \/ NewTypeStep
  \/ StoreNewStep
  \/ \E name \in DOMAIN hnd, d \in Slots :
       \E k \in 1..NullArgs(name) :
         FirstFree(name, d) /\ NewWithNull(name, d, k)

SpecNullArg == InitApi /\ [][NextNullArg]_vars

(***************************************************************************)
(* SpecPartial: copies of the composite types, function, import and export *)
(* types and pointer vectors, in which any one of the allocations the copy *)
(* makes may fail.                                                         *)
(***************************************************************************)
\* addresses the allocator hands out in SpecPartial
PartialHeap == 5
\* the allocations of one copy that may fail
CopyAllocs == 3
OneFails(k) == {{}} \cup {{i} : i \in 1..k}

InitPartial ==
  \/ /\ InitHeap(PartialHeap)
     /\ InitCaller({"valtype", "functype"}, {"valtype"})
  \/ /\ InitHeap(PartialHeap - 1)
     /\ \/ InitCaller({"memorytype", "importtype"}, {"byte"})
        \/ InitCaller({"memorytype", "exporttype"}, {"byte"})
  \/ /\ InitHeap(PartialHeap - 2)
     /\ \/ InitCaller({"valtype", "globaltype"}, {})
        \/ InitCaller({"valtype", "tabletype"}, {})

\* what the members of a new object of type name may hold before its copy
\* constructor stores in them; the pointer wasm_##name##_vec_copy assigns
\* size and data whatever they held, so for its members one value stands
\* for all
CopyJunk(name) == IF name = "functype" THEN {NoJunk} ELSE Junk

\* hnd[name][d] = wasm_##name##_copy(hnd[name][s]), with the members of the
\* new object holding whatever the memory held before
CopyDeep(name, s, d) ==
  /\ fault = "none"
  /\ own[name][s]
  /\ ~own[name][d]
  /\ \E fails \in OneFails(CopyAllocs), junk \in CopyJunk(name) :
       LET r == wasm_copy(Mem(fails, "abort", junk), name, hnd[name][s])
       IN  /\ Commit(r.m)
           /\ hnd' = [hnd EXCEPT ![name][d] = r.p]
           /\ own' = [own EXCEPT ![name][d] = (r.p # NULL)]
           /\ last' = Call("copy_deep", name, s, r.p, r.m)
  /\ UNCHANGED vec

\* wasm_##name##_vec_copy(&out, &in) into a struct that holds no buffer
VecCopyDeep(name, out, in) ==
  /\ fault = "none"
  /\ out # in
  /\ Vacant(name, out)
  /\ \E fails \in OneFails(CopyAllocs) :
       LET r == wasm_vec_copy(Mem(fails, "abort", NoJunk), name,
                              vec[name][out], vec[name][in])
       IN  /\ Commit(r.m)
           /\ vec' = [vec EXCEPT ![name][out] = r.out]
           /\ last' = Call("vec_copy_deep", name, out, in, r.m)
  /\ UNCHANGED <<hnd, own>>

NextPartial ==
  \/ VecTypeStep
  \/ NewTypeStep
  \/ \E s \in Slots, d \in Slots :
       FirstFree(Subject, d) /\ CopyDeep(Subject, s, d)
  \/ \E out \in VecIds, in \in VecIds :
       "valtype" \in DOMAIN vec /\ VecCopyDeep("valtype", out, in)

SpecPartial == InitPartial /\ [][NextPartial]_vars

(***************************************************************************)
(* SpecVal: values.  A wasm_val_t is the record of its kind and of the     *)
(* member of the union `of` that kind selects, an integer or a pointer to  *)
(* a reference.  The caller keeps its values in the buffers of its two     *)
(* wasm_val_vec_t structs and builds them from the references it has, one  *)
(* in each entry of its array as in SpecRef.                               *)
(***************************************************************************)
\* addresses the allocator hands out in SpecVal
ValHeap == 4
\* a value of wasm_valkind_t that is none of the enumerators
OTHER_KIND == "OTHER_KIND"
RefKinds == {WASM_ANYREF, WASM_FUNCREF}

wasm_val_delete(m, val) ==
  IF val # NullRef
    THEN IF val.kind \in RefKinds
      THEN [m |-> wasm_delete(m, "ref", val.of),
            val |-> [val EXCEPT !.of = NULL]]
      ELSE [m |-> m, val |-> [val EXCEPT !.of = 0]]
    ELSE [m |-> m, val |-> val]

\* wasm_val_copy storing val's pointer for a reference kind as well
wasm_val_copy_shared(m, out, val) ==
  IF out # NullRef /\ val # NullRef
    THEN [m |-> m, out |-> [kind |-> val.kind, of |-> val.of]]
    ELSE [m |-> m, out |-> out]

wasm_val_copy(m, out, val) ==
  IF out # NullRef /\ val # NullRef
    THEN IF val.kind \in RefKinds
      THEN LET c == wasm_copy(m, "ref", val.of)
           IN  [m |-> c.m, out |-> [kind |-> val.kind, of |-> c.p]]
      ELSE [m |-> m, out |-> [kind |-> val.kind, of |-> val.of]]
    ELSE [m |-> m, out |-> out]

InitVal ==
  /\ heap = [p \in 1..ValHeap |->
               IF p \in Slots THEN wasm_ref_t_ctor(p, NULL) ELSE FreeCell]
  /\ released = [p \in 1..ValHeap |-> 0]
  /\ brk = MaxLen + 1
  /\ fault = "none"
  /\ hnd = [name \in {"ref"} |-> [i \in Slots |-> i]]
  /\ own = [name \in {"ref"} |-> [i \in Slots |-> TRUE]]
  /\ vec = [name \in {"val"} |-> [v \in VecIds |-> EmptyVec]]
  /\ last = NoCall

\* wasm_val_t vals[] = {...}: entry i has kind kinds[i] and holds the
\* caller's i-th reference when that is a reference kind, the number i
\* otherwise
ValArray(kinds) ==
  [i \in DOMAIN kinds |->
     [kind |-> kinds[i],
      of |-> IF kinds[i] \in RefKinds THEN hnd["ref"][i] ELSE i]]

\* wasm_val_vec_new(&v, size, vals), which takes the references vals hold
ValVecNew(v, kinds) ==
  /\ fault = "none"
  /\ \A i \in DOMAIN kinds : kinds[i] \in RefKinds => own["ref"][i]
  /\ \E fails \in FailSets(1) :
       LET r == wasm_vec_new(Mem(fails, "abort", NoJunk), "val",
                             vec["val"][v], Len(kinds),
                             Array(ValArray(kinds)))
       IN  /\ Commit(r.m)
           /\ vec' = [vec EXCEPT !["val"][v] = r.out]
           /\ own' = [own EXCEPT !["ref"] =
                        [i \in Slots |->
                           @[i] /\ ~(i \in DOMAIN kinds /\ kinds[i] \in RefKinds
                                     /\ r.m.fault = "none")]]
           /\ last' = Call("vec_new", "val", v, Len(kinds), r.m)
  /\ UNCHANGED hnd

\* whether i is an element of the buffer vector struct v holds
ValAt(v, i) ==
  /\ ~Vacant("val", v)
  /\ i \in 1..vec["val"][v].size

\* whether val holds a reference
HoldsRef(val) == val.kind \in RefKinds /\ val.of # NULL

\* wasm_val_copy(&out.data[i], &in.data[j]) into a value that holds no
\* reference
ValCopy(out, i, in, j) ==
  /\ fault = "none"
  /\ ValAt(out, i) /\ ValAt(in, j)
  /\ ~HoldsRef(heap[vec["val"][out].data].elems[i])
  /\ \E fails \in FailSets(1) :
       LET dst == vec["val"][out].data
           src == vec["val"][in].data
           r == wasm_val_copy(Mem(fails, "abort", NoJunk),
                              heap[dst].elems[i], heap[src].elems[j])
       IN  /\ Commit([r.m EXCEPT !.heap[dst].elems[i] = r.out])
           /\ last' = Call("val_copy", "val", <<out, i>>, <<in, j>>, r.m)
  /\ UNCHANGED <<hnd, own, vec>>

\* wasm_val_delete(&v.data[i])
ValDelete(v, i) ==
  /\ fault = "none"
  /\ ValAt(v, i)
  /\ \E ub \in {"abort", "silent"} :
       LET buf == vec["val"][v].data
           r == wasm_val_delete(Mem({}, ub, NoJunk), heap[buf].elems[i])
       IN  /\ Commit([r.m EXCEPT !.heap[buf].elems[i] = r.val])
           /\ last' = Call("val_delete", "val", <<v, i>>, Released(r.m), r.m)
  /\ UNCHANGED <<hnd, own, vec>>

\* the kinds of the arrays of values the caller builds
KindSeqs == {<<WASM_ANYREF>>, <<WASM_FUNCREF, OTHER_KIND>>}

ValStep ==
  \/ \E v \in VecIds, kinds \in KindSeqs :
       Into("val", v) /\ ValVecNew(v, kinds)
  \/ \E v \in VecIds, size \in 0..MaxLen :
       Into("val", v) /\ VecNewUninitialized("val", v, size)
  \/ \E out \in VecIds, in \in VecIds :
       Into("val", out) /\ VecCopy("val", out, in)
  \/ \E v \in VecIds : VecDelete("val", v)
  \/ \E out \in VecIds, in \in VecIds, i \in Slots, j \in Slots :
       ValCopy(out, i, in, j)
  \/ \E v \in VecIds, i \in Slots : ValDelete(v, i)

NextVal == ValStep
SpecVal == InitVal /\ [][NextVal]_vars

(***************************************************************************)
(* SpecVecNull: the vector operations of SpecVec together with the calls   *)
(* of WASM_DECLARE_VEC_TEST that pass nullptr for a vector.                *)
(***************************************************************************)
\* addresses the allocator hands out in SpecVecNull
VecNullHeap == 3

InitVecNull ==
  /\ InitHeap(VecNullHeap)
  /\ \/ InitCaller({"valtype"}, {"valtype"})
     \/ InitCaller({}, {"byte"})

\* VecStep with nullptr among the vector arguments
NullVecStep ==
  \E name \in DOMAIN vec :
    \/ \E v \in VecArgs : Into(name, v) /\ VecNewEmpty(name, v)
    \/ \E v \in VecArgs, size \in 0..MaxLen :
         Into(name, v) /\ VecNewUninitialized(name, v, size)
    \/ /\ name \notin ScalarNames
       /\ \E v \in VecArgs, size \in 0..MaxLen :
            Into(name, v) /\ PtrVecNew(name, v, size)
    \/ /\ name = "byte"
       /\ \E v \in VecArgs, size \in 0..MaxLen :
            Into(name, v) /\ ByteVecNew(v, size, Array(Bytes))
    \/ \E out \in VecArgs, in \in VecArgs :
         Into(name, out) /\ VecCopy(name, out, in)
    \/ \E v \in VecArgs : VecDelete(name, v)

NextVecNull == ValtypeStep \/ NullVecStep
SpecVecNull == InitVecNull /\ [][NextVecNull]_vars

(***************************************************************************)
(* SpecExtern: the four variants of wasm_externtype_t, copied and deleted  *)
(* through the base type as TEST(APIWasmCTest, ExternType) does.  A run    *)
(* starts with one object of one variant, made by the variant's            *)
(* constructor, in the first entry of the caller's array.                  *)
(***************************************************************************)
\* addresses the allocator hands out in SpecExtern
ExternHeap == 14

\* the memory before the first allocation
EmptyMem(size) ==
  [heap |-> [p \in 1..size |-> FreeCell], brk |-> 1,
   released |-> [p \in 1..size |-> 0], fault |-> "none",
   n |-> 0, fails |-> {}, failed |-> FALSE, ub |-> "abort", junk |-> NoJunk]

\* wasm_valtype_new(kinds[1]), wasm_valtype_new(kinds[2]), ...
RECURSIVE NewValtypes(_, _, _)
NewValtypes(m, kinds, ps) ==
  IF Len(ps) = Len(kinds) THEN [m |-> m, elems |-> ps]
  ELSE LET r == wasm_valtype_new(m, kinds[Len(ps) + 1])
       IN  NewValtypes(r.m, kinds, Append(ps, r.p))

\* wasm_functype_new on vectors of new value types of the given kinds
NewFunctype(m, params, results) ==
  LET a == NewValtypes(m, params, <<>>)
      vp == wasm_vec_new(a.m, "valtype", EmptyVec, Len(params),
                         Array(a.elems))
      b == NewValtypes(vp.m, results, <<>>)
      vr == wasm_vec_new(b.m, "valtype", EmptyVec, Len(results),
                         Array(b.elems))
  IN  wasm_functype_new(vr.m, vp.out, vr.out)

\* the objects a run may start with
NewExtern(name) ==
  CASE name = "functype" ->
         {NewFunctype(EmptyMem(ExternHeap), SubSeq(TestKinds, 1, np),
                      SubSeq(TestKinds, np + 1, np + nr)) :
            np \in 0..MaxLen, nr \in 0..MaxLen}
    [] name = "globaltype" ->
         {wasm_globaltype_new(wasm_valtype_new(EmptyMem(ExternHeap),
                                               KindAt(i)).m,
                              1, MutabilityAt(i)) : i \in Slots}
    [] name = "tabletype" ->
         {wasm_tabletype_new(wasm_valtype_new(EmptyMem(ExternHeap),
                                              KindAt(i)).m,
                             1, LimitsAt(i)) : i \in Slots}
    [] name = "memorytype" ->
         {wasm_memorytype_new(EmptyMem(ExternHeap), LimitsAt(i)) : i \in Slots}

InitExtern ==
  \E name \in ExternNames :
    \E r \in NewExtern(name) :
      /\ heap = r.m.heap
      /\ brk = r.m.brk
      /\ released = r.m.released
      /\ fault = "none"
      /\ hnd = [n \in {name} |-> [i \in Slots |-> IF i = 1 THEN r.p ELSE NULL]]
      /\ own = [n \in {name} |-> [i \in Slots |-> i = 1]]
      /\ vec = [n \in {"valtype"} |-> [v \in VecIds |-> EmptyVec]]
      /\ last = NoCall

\* hnd[name][d] = wasm_externtype_as_##name(
\*   wasm_externtype_copy(wasm_##name##_as_externtype(hnd[name][s])))
ExternCopy(name, s, d) ==
  /\ fault = "none"
  /\ own[name][s]
  /\ ~own[name][d]
  /\ \E fails \in OneFails(1) :
       LET r == wasm_copy(Mem(fails, "abort", NoJunk), "externtype",
                          as_externtype(name, hnd[name][s]))
       IN  /\ Commit(r.m)
           /\ hnd' = [hnd EXCEPT ![name][d] = externtype_as(name, r.p)]
           /\ own' = [own EXCEPT ![name][d] = (r.p # NULL)]
           /\ last' = Call("externtype_copy", name, s,
                           externtype_as(name, r.p), r.m)
  /\ UNCHANGED vec

\* wasm_externtype_delete(wasm_##name##_as_externtype(hnd[name][s]))
ExternDelete(name, s) ==
  /\ fault = "none"
  /\ own[name][s]
  /\ LET m == wasm_delete(Mem({}, "abort", NoJunk), "externtype",
                          as_externtype(name, hnd[name][s]))
     IN  /\ Commit(m)
         /\ last' = Call("externtype_delete", name, s, Released(m), m)
  /\ own' = Give(name, s)
  /\ UNCHANGED <<hnd, vec>>

NextExtern ==
  \/ \E s \in Slots, d \in Slots : ExternCopy(Subject, s, d)
  \/ \E s \in Slots : ExternDelete(Subject, s)

SpecExtern == InitExtern /\ [][NextExtern]_vars

(***************************************************************************)
(* SpecHost: the host information of references, set and read back, on     *)
(* the caller's references and on nullptr.                                 *)
(***************************************************************************)
NextHost ==
  \/ \E s \in Slots \cup {0}, info \in Hosts : RefSetHostInfo(s, info)
  \/ \E s \in Slots \cup {0}, info \in Hosts, fin \in Finalizers :
       RefSetHostInfoWithFinalizer(s, info, fin)
  \/ \E s \in Slots \cup {0} : Get("wasm_ref_get_host_info", s)
  \/ \E s \in Slots, d \in Slots :
       own["ref"][s] /\ FirstFree("ref", d) /\ Copy("ref", s, d)
  \/ \E s \in Slots : own["ref"][s] /\ Delete("ref", s)

SpecHost == InitRef /\ [][NextHost]_vars

(***************************************************************************)
(* SpecFinalizer: references that carry host information and a finalizer,  *)
(* copied, changed and deleted directly and through the values that hold   *)
(* them.  The host information is an object of the caller's at address     *)
(* HostAddr, which the caller's finalizer would release.                   *)
(***************************************************************************)
\* addresses the run has in SpecFinalizer
FinalizerHeap == 5
\* the address of the caller's host object
HostAddr == 1
HostCell == [tag |-> "host"]

InitFinalizer ==
  /\ heap = [p \in 1..FinalizerHeap |->
               IF p = HostAddr THEN HostCell
               ELSE IF (p - 1) \in Slots THEN wasm_ref_t_ctor(HostAddr, 1)
               ELSE FreeCell]
  /\ released = [p \in 1..FinalizerHeap |-> 0]
  /\ brk = MaxLen + 2
  /\ fault = "none"
  /\ hnd = [name \in {"ref"} |-> [i \in Slots |-> i + 1]]
  /\ own = [name \in {"ref"} |-> [i \in Slots |-> TRUE]]
  /\ vec = [name \in {"val"} |-> [v \in VecIds |-> EmptyVec]]
  /\ last = NoCall

\* wasm_ref_delete(hnd["ref"][s]); the record of the call holds the fields
\* the reference had
RefDelete(s) ==
  /\ fault = "none"
  /\ own["ref"][s]
  /\ LET p == hnd["ref"][s]
         m == wasm_delete(Mem({}, "abort", NoJunk), "ref", p)
     IN  /\ Commit(m)
         /\ last' = Call("ref_delete", "ref",
                         [ref |-> p, host_info |-> heap[p].host_info,
                          finalizer |-> heap[p].finalizer],
                         Released(m), m)
  /\ own' = Give("ref", s)
  /\ UNCHANGED <<hnd, vec>>

NextFinalizer ==
  \/ \E v \in VecIds, kinds \in KindSeqs :
       Into("val", v) /\ ValVecNew(v, kinds)
  \/ \E out \in VecIds, in \in VecIds, i \in Slots, j \in Slots :
       ValCopy(out, i, in, j)
  \/ \E v \in VecIds, i \in Slots : ValDelete(v, i)
  \/ \E s \in Slots, d \in Slots :
       own["ref"][s] /\ FirstFree("ref", d) /\ Copy("ref", s, d)
  \/ \E s \in Slots : RefDelete(s)
  \/ \E s \in Slots, info \in Hosts : own["ref"][s] /\ RefSetHostInfo(s, info)
  \/ \E s \in Slots, info \in Hosts, fin \in Finalizers :
       own["ref"][s] /\ RefSetHostInfoWithFinalizer(s, info, fin)

SpecFinalizer == InitFinalizer /\ [][NextFinalizer]_vars

(***************************************************************************)
(* Properties of the vector operations, checked under SpecVec.             *)
(***************************************************************************)
VecOps ==
  {"vec_new_empty", "vec_new_uninitialized", "vec_new", "vec_copy",
   "vec_delete", "vec_delete_again"}

\* the elements vector struct v holds in heap h
Elems(h, v) ==
  IF v.size = 0 \/ v.data = NULL THEN <<>> ELSE SubSeq(h[v.data].elems, 1, v.size)

\* the heap cells vector struct v owns in heap h: its buffer and its elements
Cells(h, v) ==
  IF v.size = 0 \/ v.data = NULL THEN {}
  ELSE {v.data} \cup ({Elems(h, v)[i] : i \in 1..v.size} \ {NULL})

\* C3: after wasm_<name>_vec_delete(v), for the scalar and the pointer
\* family and whatever v held before, v has size = 0 and data = null; a
\* further vec_delete(v) releases nothing and leaves size = 0, data = null.
C3_VecDeleteResets ==
  last.op \in {"vec_delete", "vec_delete_again"} =>
    /\ fault = "none"
    /\ vec[last.name][last.a] = EmptyVec
    /\ last.op = "vec_delete_again" => last.ret = {}

\* a populated pointer vector was deleted, and then deleted again
C3_Witness ==
  /\ last.op = "vec_delete_again"
  /\ last.name = "valtype"
  /\ \E p \in DOMAIN heap : \E q \in DOMAIN heap :
       /\ p # q
       /\ released[p] = 1 /\ released[q] = 1
       /\ \A i \in Slots : hnd["valtype"][i] # NULL => own["valtype"][i]

\* C4: every vector operation that yields an empty vector (new_empty,
\* new_uninitialized(0), new(0, elems), delete, copy from a source of size
\* 0) leaves data = null together with size = 0, in both families and
\* whatever the destination held before.
C4_EmptyHasNullData ==
  (/\ last.op \in VecOps
   /\ ~last.failed
   /\ vec[last.name][last.a].size = 0) => vec[last.name][last.a].data = NULL

\* C5 as the claim states it: after wasm_<name>_vec_new(out, n, elems) on a
\* pointer vector with n > 0, the caller's slots elems[0..n-1] are null.
C5_SourceCleared ==
  (/\ last.op = "vec_new"
   /\ last.name \notin ScalarNames
   /\ last.ret > 0
   /\ ~last.failed) => \A i \in 1..last.ret : hnd[last.name][i] = NULL

\* C5, amended: after wasm_<name>_vec_new(out, n, elems) on a pointer vector
\* with n > 0 whose buffer was allocated, out holds the n pointers
\* elems[0..n-1] in order and the caller's array is unchanged, so that each
\* element is referenced by the vector and still by the caller's slot.
C5_SourceKept ==
  [][(/\ last'.op = "vec_new"
      /\ last'.name \notin ScalarNames
      /\ last'.ret > 0
      /\ ~last'.failed) =>
       LET out == vec'[last'.name][last'.a]
       IN  /\ out.size = last'.ret
           /\ out.data # NULL
           /\ heap'[out.data].elems = SubSeq(hnd[last'.name], 1, last'.ret)
           /\ hnd' = hnd]_vars

\* a vector was made of two wasm_valtype_t the caller had constructed
C5_Witness ==
  /\ last.op = "vec_new"
  /\ last.name = "valtype"
  /\ last.ret = 2
  /\ ~last.failed
  /\ \A i \in 1..2 : /\ hnd["valtype"][i] # NULL
                      /\ heap[hnd["valtype"][i]].tag = "valtype"
  /\ hnd["valtype"][1] # hnd["valtype"][2]

\* a step that is wasm_valtype_vec_copy(&out, &in) with every allocation
\* succeeding makes out a deep copy of in
C6_CopyStep ==
  (last'.op = "vec_copy" /\ last'.name \notin ScalarNames /\ ~last'.failed) =>
    LET src == Elems(heap, vec[last'.name][last'.ret])
        dst == Elems(heap', vec'[last'.name][last'.a])
    IN  /\ vec'[last'.name][last'.a].size = vec[last'.name][last'.ret].size
        /\ Len(dst) = Len(src)
        /\ \A i \in DOMAIN src :
             IF src[i] = NULL THEN dst[i] = NULL
             ELSE /\ dst[i] # NULL
                  /\ heap[dst[i]].tag = "free"
                  /\ heap'[dst[i]] = heap[src[i]]
                  /\ \A j \in DOMAIN src : dst[i] # src[j]
                  /\ \A j \in DOMAIN dst : j # i => dst[j] # dst[i]
        /\ \A p \in DOMAIN heap : heap[p].tag # "free" => heap'[p] = heap[p]

\* a step that is wasm_valtype_vec_delete(&v) releases the buffer and the
\* elements of v, each once, and nothing else
C6_DeleteStep ==
  (last'.op = "vec_delete" /\ last'.name \notin ScalarNames) =>
    LET mine == Cells(heap, vec[last'.name][last'.a])
    IN  /\ last'.ret = mine
        /\ fault' = "none"
        /\ \A p \in DOMAIN heap :
             IF p \in mine
               THEN heap'[p].tag = "free" /\ released'[p] = 1
               ELSE heap'[p] = heap[p] /\ released'[p] = released[p]

\* C6: wasm_<name>_vec_copy(dst, src) on a pointer vector of n elements
\* gives dst n elements, each a newly allocated deep copy of src's element
\* at the same index and aliasing no element of src; deleting either vector
\* releases its own elements only, each exactly once, so the other's
\* elements stay live.
C6_DeepCopy ==
  /\ [](\A name \in DOMAIN vec \ ScalarNames :
         Cells(heap, vec[name]["out"]) \cap Cells(heap, vec[name]["copy"]) = {})
  /\ [][C6_CopyStep /\ C6_DeleteStep]_vars

\* the source of a copy was deleted and the copy still holds its element,
\* a live wasm_valtype_t that never was in the caller's array
C6_Witness ==
  /\ last.op = "vec_delete"
  /\ last.name = "valtype"
  /\ last.a = "out"
  /\ Cardinality(last.ret) = 2
  /\ vec["valtype"]["copy"].size = 1
  /\ LET e == Elems(heap, vec["valtype"]["copy"])[1]
     IN  /\ e # NULL
         /\ heap[e].tag = "valtype"
         /\ \A i \in Slots : hnd["valtype"][i] # e

(***************************************************************************)
(* Properties of the store, checked under SpecStore.                       *)
(***************************************************************************)
\* a step that is wasm_store_new(nullptr) returns nullptr and neither
\* allocates nor changes anything
C10_NullStep ==
  (last'.op = "new" /\ last'.name = "store" /\ last'.a = 0) =>
    /\ last'.ret = NULL
    /\ ~last'.failed
    /\ UNCHANGED <<heap, brk, released, fault>>

\* a step that is wasm_store_new(engine) and returns a store: the store
\* refers to the engine, which is unchanged and still the caller's
C10_NewStep ==
  (last'.op = "new" /\ last'.name = "store" /\ last'.ret # NULL) =>
    LET e == hnd["engine"][last'.a]
    IN  /\ last'.a # 0 /\ e # NULL
        /\ heap[last'.ret].tag = "free"
        /\ heap'[last'.ret] = [tag |-> "store", engine |-> e]
        /\ \A p \in DOMAIN heap : p # last'.ret => heap'[p] = heap[p]
        /\ released' = released
        /\ own'["engine"][last'.a]

\* a step that is wasm_store_delete(store) or wasm_engine_delete(engine)
\* of a live object releases that object, once, and nothing else
C10_DeleteStep ==
  (last'.op = "delete" /\ last'.name \in {"store", "engine"}) =>
    LET p == hnd[last'.name][last'.a]
    IN  /\ last'.ret = {p}
        /\ fault' = "none"
        /\ heap'[p].tag = "free" /\ released'[p] = 1
        /\ \A q \in DOMAIN heap :
             q # p => heap'[q] = heap[q] /\ released'[q] = released[q]

\* C10: wasm_store_new(null) returns null and allocates or changes nothing;
\* wasm_store_new(engine) returns a Store that only borrows the engine:
\* deleting the Store does not delete the Engine, which stays live and is
\* deletable exactly once afterwards.
C10_StoreBorrowsEngine ==
  /\ [](\A i \in Slots : own["engine"][i] => Live(Mem({}, "abort", NoJunk),
                                                    hnd["engine"][i]))
  /\ [][C10_NullStep /\ C10_NewStep /\ C10_DeleteStep]_vars

\* one engine and one store on it were made, the store was deleted and
\* the engine after it
C10_Witness ==
  /\ brk = 3
  /\ last.op = "delete" /\ last.name = "engine"
  /\ hnd["engine"][1] = 1 /\ hnd["store"][1] = 2
  /\ released[1] = 1 /\ released[2] = 1
  /\ fault = "none"

(***************************************************************************)
(* Properties of references, checked under SpecRef.                        *)
(***************************************************************************)
\* C8: wasm_ref_same(a, b) is true iff a and b are both non-null and have
\* equal host_info and equal finalizer; it is false when either field
\* differs or either argument is null, and whether a and b are one object
\* does not matter.
C8_RefSame ==
  last.op = "wasm_ref_same" =>
    LET a == Arg("ref", last.a[1])
        b == Arg("ref", last.a[2])
    IN  IF a = NULL \/ b = NULL THEN last.ret = FALSE
        ELSE last.ret = (/\ heap[a].host_info = heap[b].host_info
                         /\ heap[a].finalizer = heap[b].finalizer)

\* two different reference objects with equal fields were found the same
C8_Witness ==
  /\ last.op = "wasm_ref_same"
  /\ last.ret = TRUE
  /\ Arg("ref", last.a[1]) # Arg("ref", last.a[2])

(***************************************************************************)
(* Properties of the types, checked under SpecType.                        *)
(***************************************************************************)
\* the kinds wasm_valtype_kind reports for the elements of vector v
Kinds(h, v) == [i \in 1..v.size |-> wasm_valtype_kind(h, Elems(h, v)[i])]

\* what the accessors of type name report for the live object p in heap h
Report(h, name, p) ==
  CASE name = "functype" ->
         [params |-> Kinds(h, Deref(h, wasm_functype_params(h, p))),
          results |-> Kinds(h, Deref(h, wasm_functype_results(h, p)))]
    [] name = "globaltype" ->
         [content |-> Deref(h, wasm_globaltype_content(h, p)).kind,
          mutability |-> wasm_globaltype_mutability(h, p)]
    [] name = "tabletype" ->
         [element |-> Deref(h, wasm_tabletype_element(h, p)).kind,
          limits |-> Deref(h, wasm_tabletype_limits(h, p))]
    [] name = "memorytype" ->
         [limits |-> Deref(h, wasm_memorytype_limits(h, p))]
    [] name = "importtype" ->
         [module |-> Elems(h, Deref(h, wasm_importtype_module(h, p))),
          name |-> Elems(h, Deref(h, wasm_importtype_name(h, p))),
          type |-> wasm_importtype_type(h, p),
          kind |-> wasm_externtype_kind(h, wasm_importtype_type(h, p))]
    [] name = "exporttype" ->
         [name |-> Elems(h, Deref(h, wasm_exporttype_name(h, p))),
          type |-> wasm_exporttype_type(h, p),
          kind |-> wasm_externtype_kind(h, wasm_exporttype_type(h, p))]

\* what the constructor call recorded in call was given, read before it
Given(call) ==
  CASE call.name = "functype" ->
         [params |-> Kinds(heap, vec["valtype"]["out"]),
          results |-> Kinds(heap, vec["valtype"]["copy"])]
    [] call.name = "globaltype" ->
         [content |-> wasm_valtype_kind(heap, hnd["valtype"][call.a.valtype]),
          mutability |-> call.a.mutability]
    [] call.name = "tabletype" ->
         [element |-> wasm_valtype_kind(heap, hnd["valtype"][call.a.valtype]),
          limits |-> call.a.limits]
    [] call.name = "memorytype" -> [limits |-> call.a.limits]
    [] call.name = "importtype" ->
         [module |-> Elems(heap, vec["byte"]["out"]),
          name |-> Elems(heap, vec["byte"]["copy"]),
          type |-> hnd["memorytype"][call.a.externtype],
          kind |-> WASM_EXTERN_MEMORY]
    [] call.name = "exporttype" ->
         [name |-> Elems(heap, vec["byte"]["out"]),
          type |-> hnd["memorytype"][call.a.externtype],
          kind |-> WASM_EXTERN_MEMORY]

\* a step that is a constructor call returning an object: the accessors
\* report for it what the call was given
C9_NewStep ==
  (last'.op = "new" /\ last'.name = Subject /\ last'.ret # NULL) =>
    /\ fault' = "none"
    /\ Report(heap', Subject, last'.ret) = Given(last')

\* any step: the accessors report for every object the caller has before
\* and after the step what they reported before
C9_KeepStep ==
  \A i \in Slots :
    (own[Subject][i] /\ own'[Subject][i]
       /\ hnd'[Subject][i] = hnd[Subject][i]) =>
      Report(heap', Subject, hnd[Subject][i])
        = Report(heap, Subject, hnd[Subject][i])

\* C9: the accessors read back what the constructor was given, per object:
\* functype params()/results() the supplied kinds in the supplied order,
\* globaltype content().kind and mutability(), importtype
\* module()/name()/type() and exporttype name()/type() the supplied name
\* bytes and the supplied extern type; constructing or destroying another
\* object does not change what an existing object reports.
C9_ReadBack == [][C9_NewStep /\ C9_KeepStep]_vars

\* an accessor was called while the caller had two function types that
\* report different parameters
C9_Witness ==
  /\ last.op \in {"wasm_functype_params", "wasm_functype_results"}
  /\ own["functype"][1] /\ own["functype"][2]
  /\ Report(heap, "functype", hnd["functype"][1]).params
       # Report(heap, "functype", hnd["functype"][2]).params

\* C7 as the claim states it: for every variant V and every pointer p to a
\* V, null included, the downcast of the upcast of p is p, the kind of the
\* upcast is V's discriminant, and neither cast allocates or modifies.
C7_RoundTripAll ==
  [][last'.op = "cast" =>
       /\ last'.ret.back = Arg(last'.name, last'.a)
       /\ last'.ret.kind = ExternKindOf(last'.name)
       /\ UNCHANGED <<heap, brk, released, fault>>]_vars

\* C7, amended: for every variant V and every pointer p to a V, null
\* included, the downcast of the upcast of p is p and neither cast
\* allocates or modifies; for p # null the kind of the upcast is V's
\* discriminant, and for p = null the upcast is null and its kind is
\* reported as WASM_EXTERN_FUNC.
C7_RoundTrip ==
  [][last'.op = "cast" =>
       LET p == Arg(last'.name, last'.a)
       IN  /\ last'.ret.back = p
           /\ IF p # NULL
                THEN last'.ret.kind = ExternKindOf(last'.name)
                ELSE last'.ret.up = NULL /\ last'.ret.kind = WASM_EXTERN_FUNC
           /\ UNCHANGED <<heap, brk, released, fault>>]_vars

\* a live table type was cast to wasm_externtype_t and back
C7_Witness ==
  /\ last.op = "cast"
  /\ last.name = "tabletype"
  /\ last.a # 0
  /\ own["tabletype"][last.a]
  /\ last.ret.up # NULL
  /\ last.ret.kind = WASM_EXTERN_TABLE

(***************************************************************************)
(* Properties of calls with nullptr, checked under SpecNull.               *)
(***************************************************************************)
\* what accessor op returns for nullptr
Default(op) ==
  CASE op = "wasm_valtype_kind" -> WASM_I32
    [] op = "wasm_globaltype_mutability" -> WASM_CONST
    [] op \in {"wasm_importtype_type", "wasm_exporttype_type",
               "wasm_ref_get_host_info"} -> NULL
    [] OTHER -> NullRef

\* C2: a null receiver is never dereferenced: wasm_<type>_delete(null) and
\* wasm_<type>_copy(null) change no state and copy returns null, and every
\* accessor called on null returns its default: wasm_valtype_kind WASM_I32,
\* wasm_globaltype_mutability WASM_CONST, wasm_externtype_kind
\* WASM_EXTERN_FUNC, get_host_info null, and the accessors that return a
\* pointer (params, results, content, element, limits, module, name, type)
\* null.
C2_NullReceiver ==
  [][(/\ last'.op \in {"delete", "copy", "cast"} \cup AccessorNames
      /\ Arg(last'.name, last'.a) = NULL) =>
       /\ UNCHANGED <<heap, brk, released, fault, vec, own>>
       /\ ~last'.failed
       /\ last'.op = "delete" => last'.ret = {} /\ hnd' = hnd
       /\ last'.op = "copy" => last'.ret = NULL
       /\ last'.op = "cast" => last'.ret.kind = WASM_EXTERN_FUNC
       /\ last'.op \in AccessorNames => last'.ret = Default(last'.op)]_vars

\* wasm_globaltype_copy(nullptr) was called while a global type existed
C2_Witness ==
  /\ last.op = "copy" /\ last.name = "globaltype" /\ last.a = 0
  /\ own["globaltype"][1]
  /\ heap[hnd["globaltype"][1]].tag = "globaltype"

(***************************************************************************)
(* Properties of deleting twice, checked under SpecTwice.                  *)
(***************************************************************************)
\* C1 as the claim states it: for every destroyable type and every vector,
\* the second of two deletes of the same object in a row is a no-op: no
\* fault, and no heap object is released twice.
C1_TwiceIsNoOp ==
  last.op \in {"delete_again", "vec_delete_again"} =>
    /\ fault = "none"
    /\ \A p \in DOMAIN heap : released[p] <= 1

\* C1, amended: the second of two vec_delete of the same vector in a row is
\* a no-op, and so is the second of two deletes of a null handle; the
\* second of two deletes of the same non-null handle hands the released
\* object to operator delete again.
C1_TwiceVecOnly ==
  /\ last.op = "vec_delete_again" =>
       /\ fault = "none"
       /\ last.ret = {}
       /\ vec[last.name][last.a] = EmptyVec
  /\ last.op = "delete_again" =>
       LET p == Arg(last.name, last.a)
       IN  IF p = NULL THEN fault = "none" /\ last.ret = {}
           ELSE /\ last.ret = {p}
                /\ released[p] = 2
                /\ fault \in {"none", "double_free"}

\* an import type was deleted twice in a row
C1_Witness ==
  /\ last.op = "delete_again"
  /\ last.name = "importtype"
  /\ Arg(last.name, last.a) # NULL
  /\ fault = "double_free"

(***************************************************************************)
(* Properties of constructors given nullptr, checked under SpecNullArg.    *)
(***************************************************************************)
\* C11: every constructor tolerates a null object argument: the call with
\* nullptr for the configuration, a vector, the value type, the limits or
\* a name returns, a null handle or an object, without a fault.
C11_NullArgTolerated ==
  last.op = "new_with_null" => fault = "none"

(***************************************************************************)
(* Properties of failed allocations, checked under SpecVec.                *)
(***************************************************************************)
\* C12: when an allocation fails inside a constructor or a copy, the buffer
\* allocation of vec_new_uninitialized, vec_new and vec_copy with n > 0
\* included, the operation returns without a fault and reports the failure
\* as a null handle or as null data.
C12_AllocFailureReported ==
  last.failed =>
    /\ fault = "none"
    /\ last.op \in {"new", "copy"} => last.ret = NULL
    /\ last.op \in {"vec_new_uninitialized", "vec_new", "vec_copy"} =>
         vec[last.name][last.a].data = NULL

(***************************************************************************)
(* Properties of copies of composites, checked under SpecPartial.          *)
(***************************************************************************)
\* whether vector struct c, a copy of s, has every element s has
WholeVec(h, c, s) ==
  /\ c.size = s.size
  /\ s.size > 0 =>
       /\ c.data \in DOMAIN h
       /\ Len(h[c.data].elems) = s.size
       /\ \A i \in 1..s.size :
            Elems(h, s)[i] # NULL => h[c.data].elems[i] # NULL

\* whether object p, a copy of src, has every owned child src has
Whole(h, name, p, src) ==
  CASE name = "functype" ->
         /\ WholeVec(h, h[p].params, h[src].params)
         /\ WholeVec(h, h[p].results, h[src].results)
    [] name = "importtype" ->
         /\ WholeVec(h, h[p].modname, h[src].modname)
         /\ WholeVec(h, h[p].name, h[src].name)
         /\ h[src].type # NULL => h[p].type # NULL
    [] name = "exporttype" ->
         /\ WholeVec(h, h[p].name, h[src].name)
         /\ h[src].type # NULL => h[p].type # NULL

\* C13: no partially constructed object escapes: when an allocation needed
\* by the copy of a function type, an import or export type or a pointer
\* vector fails, the copy returns null (or an empty vector), never an
\* object that lacks an owned child its source has.
C13_NoPartialCopy ==
  /\ (last.op = "copy_deep" /\ fault = "none" /\ last.ret # NULL) =>
       Whole(heap, last.name, last.ret, hnd[last.name][last.a])
  /\ (last.op = "vec_copy_deep" /\ fault = "none") =>
       \/ vec[last.name][last.a] = EmptyVec
       \/ WholeVec(heap, vec[last.name][last.a], vec[last.name][last.ret])

(***************************************************************************)
(* Properties of the values, checked under SpecVal.                        *)
(***************************************************************************)
\* the value in element e = <<v, i>> of the caller's vectors
ValOf(h, e) == h[vec["val"][e[1]].data].elems[e[2]]
\* the cell of vector e[1]'s buffer
BufOf(e) == vec["val"][e[1]].data

\* a step that is wasm_val_copy of a value of a reference kind whose
\* reference is live
C14_CopyStep ==
  /\ last'.op = "val_copy"
  /\ fault' = "none"
  /\ ValOf(heap, last'.ret).kind \in RefKinds
  /\ Live(Mem({}, "abort", NoJunk), ValOf(heap, last'.ret).of)

\* a step that is wasm_val_delete of a value of a reference kind whose
\* reference is live
C14_DeleteStep ==
  /\ last'.op = "val_delete"
  /\ ValOf(heap, last'.a).kind \in RefKinds
  /\ Live(Mem({}, "abort", NoJunk), ValOf(heap, last'.a).of)

\* C14: wasm_val_copy of a value of kind ANYREF or FUNCREF stores the same
\* kind and a pointer to a newly allocated reference, distinct from the
\* source's, with the source's fields (a null pointer when the allocation
\* fails), and leaves the source's reference as it was; wasm_val_delete of
\* such a value gives exactly that value's reference to operator delete,
\* once, and leaves every other reference live and unchanged, so that a
\* value and its copy are deleted independently of each other.
C14_IndependentCopy ==
  [][/\ C14_CopyStep =>
          LET src == ValOf(heap, last'.ret)
              dst == ValOf(heap', last'.a)
          IN  /\ dst.kind = src.kind
              /\ heap'[src.of] = heap[src.of]
              /\ IF last'.failed THEN dst.of = NULL
                 ELSE /\ dst.of \in DOMAIN heap
                      /\ dst.of # src.of
                      /\ heap[dst.of].tag = "free"
                      /\ released[dst.of] = 0
                      /\ heap'[dst.of] = heap[src.of]
     /\ C14_DeleteStep =>
          LET val == ValOf(heap, last'.a)
          IN  /\ fault' = "none"
              /\ last'.ret = {val.of}
              /\ released'[val.of] = released[val.of] + 1
              /\ heap'[val.of].tag = "free"
              /\ ValOf(heap', last'.a) = [kind |-> val.kind, of |-> NULL]
              /\ \A p \in DOMAIN heap :
                   p \notin {val.of, BufOf(last'.a)} => heap'[p] = heap[p]]_vars

\* a value and the copy wasm_val_copy made of it have both been deleted:
\* the source's reference, one of the caller's, and the copy's, allocated
\* later, have each been released once, the copy's by this wasm_val_delete
C14_Witness ==
  /\ fault = "none"
  /\ last.op = "val_delete"
  /\ \E q \in DOMAIN heap :
       /\ q > MaxLen
       /\ last.ret = {q}
       /\ released[q] = 1
  /\ \E p \in Slots : released[p] = 1 /\ ~own["ref"][p]
  /\ \A i \in 1..vec["val"][last.a[1]].size :
       /\ ValOf(heap, <<last.a[1], i>>).kind \in RefKinds
       /\ ValOf(heap, <<last.a[1], i>>).of = NULL

\* C15: a wasm_val_copy or wasm_val_delete whose value has a kind outside
\* the enumeration does not complete normally: the call ends in a fault.
C15_InvalidKindFatal ==
  [][/\ last'.op = "val_copy" =>
          (ValOf(heap, last'.ret).kind = OTHER_KIND => fault' # "none")
     /\ last'.op = "val_delete" =>
          (ValOf(heap, last'.a).kind = OTHER_KIND => fault' # "none")]_vars

\* the owners of the object at p: the entries of the caller's array that
\* own it and the values in buffers that hold it when p is a reference, the
\* caller's vector structs that point to it when p is a buffer
Owners(p) ==
  IF heap[p].tag = "buf"
    THEN {<<"vec", v>> : v \in {v \in VecIds : vec["val"][v].data = p}}
    ELSE {<<"ref", i>> :
            i \in {i \in Slots : own["ref"][i] /\ hnd["ref"][i] = p}}
         \cup
         {e \in {b \in DOMAIN heap : heap[b].tag = "buf"} \X Slots :
            /\ e[2] \in DOMAIN heap[e[1]].elems
            /\ heap[e[1]].elems[e[2]].kind \in RefKinds
            /\ heap[e[1]].elems[e[2]].of = p}

\* C16: while the program runs, every live object, a reference or a
\* vector's buffer, has exactly one owner.
C16_SingleOwner ==
  fault = "none" =>
    \A p \in DOMAIN heap : heap[p].tag # "free" => Cardinality(Owners(p)) = 1

(***************************************************************************)
(* Vectors of empty slots, checked under SpecVec.                          *)
(***************************************************************************)
\* vector struct v holds a live buffer of heap h of its size, every slot
\* of it zero
ZeroSlots(h, name, v) ==
  /\ v.size > 0
  /\ v.data \in DOMAIN h
  /\ h[v.data].tag = "buf"
  /\ Len(h[v.data].elems) = v.size
  /\ \A i \in 1..v.size :
       h[v.data].elems[i] = IF name = "byte" THEN 0 ELSE NULL

\* a step that is wasm_<name>_vec_new_uninitialized(&v, n), n > 0, whose
\* allocation succeeds, leaves v.size = n and v.data a newly allocated
\* buffer of n zero slots
C17_NewStep ==
  (last'.op = "vec_new_uninitialized" /\ ~last'.failed) =>
    \A n \in 1..MaxLen :
      VecNewUninitialized(last'.name, last'.a, n) =>
        /\ fault' = "none"
        /\ vec'[last'.name][last'.a].size = n
        /\ heap[vec'[last'.name][last'.a].data].tag = "free"
        /\ ZeroSlots(heap', last'.name, vec'[last'.name][last'.a])

\* the wasm_<name>_vec_delete(&v) that follows gives the buffer to operator
\* delete and nothing else, and changes no other object
C17_DeleteStep ==
  (/\ last.op = "vec_new_uninitialized"
   /\ ZeroSlots(heap, last.name, vec[last.name][last.a])
   /\ last'.op = "vec_delete" /\ last'.name = last.name /\ last'.a = last.a)
  => LET buf == vec[last.name][last.a].data
     IN  /\ fault' = "none"
         /\ last'.ret = {buf}
         /\ vec'[last.name][last.a] = EmptyVec
         /\ \A p \in DOMAIN heap :
              IF p = buf
                THEN heap'[p].tag = "free" /\ released'[p] = released[p] + 1
                ELSE heap'[p] = heap[p] /\ released'[p] = released[p]

\* C17: wasm_<name>_vec_new_uninitialized(out, n) with n > 0 and a
\* successful allocation leaves out.size = n, out.data a live buffer and
\* every one of the n slots zero (a null pointer in a pointer vector); the
\* wasm_<name>_vec_delete that follows destroys no element and frees only
\* that buffer.
C17_ZeroedSlots == [][C17_NewStep /\ C17_DeleteStep]_vars

\* a vector of the largest size was made by wasm_valtype_vec_new_
\* uninitialized while the caller holds live value types: every slot is null
C17_Witness ==
  /\ fault = "none"
  /\ last.op = "vec_new_uninitialized"
  /\ last.name = "valtype"
  /\ ~last.failed
  /\ vec["valtype"][last.a].size = MaxLen
  /\ ZeroSlots(heap, "valtype", vec["valtype"][last.a])
  /\ \E i \in Slots : own["valtype"][i]

(***************************************************************************)
(* Null vector references, checked under SpecVecNull.                      *)
(***************************************************************************)
\* a step that is a vector operation given a null vector reference
C18_NullStep ==
  /\ last'.op \in VecOps
  /\ \/ last'.a = "null"
     \/ last'.op = "vec_copy" /\ last'.ret = "null"

\* C18: a vector operation given a null vector reference, as out, as the
\* source or as the destination of a copy, allocates nothing, changes no
\* vector and no object, and leaves the elements it was given live and owned
\* by the caller.
C18_NullVecNoOp ==
  [][C18_NullStep =>
       /\ ~last'.failed
       /\ UNCHANGED <<heap, brk, released, fault, hnd, own, vec>>]_vars

\* wasm_valtype_vec_new(nullptr, MaxLen, valtypes) has returned while the
\* caller owns every element of valtypes and one of its vectors holds a
\* buffer: the elements are still live and the caller's
C18_Witness ==
  /\ last.op = "vec_new"
  /\ last.name = "valtype"
  /\ last.a = "null"
  /\ last.ret = MaxLen
  /\ \A i \in Slots : own["valtype"][i] /\ heap[hnd["valtype"][i]].tag = "valtype"
  /\ \E v \in VecIds : vec["valtype"][v].size > 0

(***************************************************************************)
(* Properties of the base type of the variants, checked under SpecExtern.  *)
(***************************************************************************)
\* the heap cells the variant object p owns besides itself: the buffers and
\* elements of a function type's two vectors
Children(h, name, p) ==
  IF name = "functype"
    THEN Cells(h, h[p].params) \cup Cells(h, h[p].results)
    ELSE {}

\* a step that is wasm_externtype_copy(e) in which no allocation fails
\* returns a newly allocated object of e's variant and kind, owning only
\* newly allocated cells, for which the accessors report what they report
\* for e, and leaves e as it was
C19_CopyStep ==
  (last'.op = "externtype_copy" /\ ~last'.failed) =>
    LET name == last'.name
        e == hnd[name][last'.a]
        c == last'.ret
    IN  /\ fault' = "none"
        /\ c # NULL /\ c # e
        /\ heap[c].tag = "free"
        /\ heap'[c].tag = name
        /\ wasm_externtype_kind(heap', as_externtype(name, c))
             = wasm_externtype_kind(heap, as_externtype(name, e))
        /\ wasm_externtype_kind(heap', as_externtype(name, c))
             = ExternKindOf(name)
        /\ Report(heap', name, c) = Report(heap, name, e)
        /\ \A p \in Children(heap', name, c) : heap[p].tag = "free"
        /\ \A p \in {e} \cup Children(heap, name, e) : heap'[p] = heap[p]

\* a step that is wasm_externtype_delete(e) gives e and the cells e owns to
\* operator delete, each once, and changes nothing else
C19_DeleteStep ==
  last'.op = "externtype_delete" =>
    LET name == last'.name
        e == hnd[name][last'.a]
        mine == {e} \cup Children(heap, name, e)
    IN  /\ fault' = "none"
        /\ last'.ret = mine
        /\ \A p \in DOMAIN heap :
             IF p \in mine
               THEN heap'[p].tag = "free" /\ released'[p] = released[p] + 1
               ELSE heap'[p] = heap[p] /\ released'[p] = released[p]

\* C19: wasm_externtype_copy(e) on an object of kind FUNC, GLOBAL, TABLE or
\* MEMORY in which no allocation fails returns a newly allocated object of
\* the same variant, distinct from e, whose kind and variant fields equal
\* e's; wasm_externtype_delete(e) releases exactly e and the children e
\* owns, so that a copy stays as it was.
C19_ExternDispatch == [][C19_CopyStep /\ C19_DeleteStep]_vars

\* a function type with MaxLen params and results was copied through the
\* base type, the original was deleted through it, and the copy still
\* reports the kinds the original was made from
C19_Witness ==
  /\ fault = "none"
  /\ last.op = "externtype_delete"
  /\ last.name = "functype"
  /\ last.a = 1
  /\ own["functype"][2]
  /\ Report(heap, "functype", hnd["functype"][2])
       = [params |-> SubSeq(TestKinds, 1, MaxLen),
          results |-> SubSeq(TestKinds, MaxLen + 1, 2 * MaxLen)]
  /\ wasm_externtype_kind(heap, as_externtype("functype", hnd["functype"][2]))
       = WASM_EXTERN_FUNC

(***************************************************************************)
(* Properties of the host information, checked under SpecHost.             *)
(***************************************************************************)
HostSetters ==
  {"wasm_ref_set_host_info", "wasm_ref_set_host_info_with_finalizer"}

\* a step that is a setter called on a reference stores the host
\* information (and the finalizer, when it is given one) in that reference
\* and changes nothing else; called on nullptr it changes nothing
C20_SetStep ==
  last'.op \in HostSetters =>
    LET p == Arg("ref", last'.a)
    IN  /\ UNCHANGED <<brk, released, fault, hnd, own, vec>>
        /\ \A q \in DOMAIN heap \ {p} : heap'[q] = heap[q]
        /\ p # NULL =>
             IF last'.op = "wasm_ref_set_host_info"
               THEN /\ heap'[p].host_info = last'.ret
                    /\ heap'[p].finalizer = heap[p].finalizer
               ELSE /\ heap'[p].host_info = last'.ret[1]
                    /\ heap'[p].finalizer = last'.ret[2]

\* a step that is wasm_ref_get_host_info returns the reference's host
\* information, the one just set when the step before was a setter called
\* on the same reference, and a null pointer for nullptr
C20_GetStep ==
  last'.op = "wasm_ref_get_host_info" =>
    LET p == Arg("ref", last'.a)
    IN  /\ last'.ret = IF p = NULL THEN NULL ELSE heap[p].host_info
        /\ (p # NULL /\ last.op \in HostSetters /\ last.a = last'.a) =>
             last'.ret = IF last.op = "wasm_ref_set_host_info"
                           THEN last.ret ELSE last.ret[1]

\* only a setter called on a reference changes that reference's host
\* information or finalizer while it is live
C20_KeepStep ==
  \A p \in DOMAIN heap :
    (heap[p].tag = "ref" /\ heap'[p].tag = "ref" /\ heap'[p] # heap[p]) =>
      last'.op \in HostSetters /\ Arg("ref", last'.a) = p

\* C20: on a non-null reference wasm_ref_set_host_info sets host_info and
\* leaves the finalizer, wasm_ref_set_host_info_with_finalizer sets both,
\* and wasm_ref_get_host_info returns the host_info set last; a setter
\* changes no other reference, and a setter called on nullptr changes
\* nothing.
C20_HostInfo == [][C20_SetStep /\ C20_GetStep /\ C20_KeepStep]_vars

\* wasm_ref_set_host_info has stored a non-null host information in one
\* of the caller's references, which still has its non-null finalizer,
\* while another reference of the caller still has none
C20_Witness ==
  /\ last.op = "wasm_ref_set_host_info"
  /\ last.a \in Slots
  /\ last.ret = 1
  /\ heap[hnd["ref"][last.a]].host_info = 1
  /\ heap[hnd["ref"][last.a]].finalizer = 1
  /\ \E i \in Slots \ {last.a} :
       own["ref"][i] /\ heap[hnd["ref"][i]].host_info = NULL

(***************************************************************************)
(* Properties of the finalizer and the host information of a reference,    *)
(* checked under SpecFinalizer.                                            *)
(***************************************************************************)
\* C21: no operation invokes a reference's finalizer or releases its host
\* information: after any sequence of wasm_ref_copy, the two setters,
\* wasm_ref_delete, wasm_val_copy and wasm_val_delete the caller's host
\* object is still there, never given to operator delete, and every address
\* a step gives to operator delete is that of a reference
C21_HostKept ==
  /\ heap[HostAddr] = HostCell
  /\ released[HostAddr] = 0

C21_RefsOnly ==
  \A p \in DOMAIN heap :
    released'[p] # released[p] =>
      \/ heap[p].tag = "ref"
      \/ heap[p].tag = "free" /\ released[p] > 0

C21_NoFinalizer == []C21_HostKept /\ [][C21_RefsOnly]_vars

\* a reference whose finalizer and host information were set has been
\* deleted, and the host object is still there
C21_Witness ==
  /\ fault = "none"
  /\ last.op = "ref_delete"
  /\ last.a.finalizer # NULL
  /\ last.a.host_info = HostAddr
  /\ last.ret = {last.a.ref}
  /\ heap[HostAddr] = HostCell
  /\ released[HostAddr] = 0

(***************************************************************************)
(* Properties of the constructors that take their arguments, checked       *)
(* under SpecType.                                                         *)
(***************************************************************************)
\* the vector structs the caller passes to the constructor of name
Taken(name) ==
  IF name = "functype" THEN {<<"valtype", "out">>, <<"valtype", "copy">>}
  ELSE IF name = "importtype" THEN {<<"byte", "out">>, <<"byte", "copy">>}
  ELSE IF name = "exporttype" THEN {<<"byte", "out">>}
  ELSE {}

\* C22: after wasm_functype_new, wasm_importtype_new or wasm_exporttype_new
\* succeeds, every vector struct the caller passed as a taken argument is
\* empty, size = 0 and data = null
C22_TakenVecEmpty ==
  (/\ fault = "none"
   /\ last.op = "new"
   /\ last.ret # NULL)
    => \A t \in Taken(last.name) : vec[t[1]][t[2]] = EmptyVec

\* C23: the value type wasm_globaltype_new or wasm_tabletype_new takes has
\* been released exactly once when the call returns, whether it returns the
\* new object or null because the allocation failed, and deleting the
\* constructed object releases no value type a second time
C23_TakenReleasedOnce ==
  /\ (/\ fault = "none"
      /\ last.op = "new"
      /\ last.name \in {"globaltype", "tabletype"})
       => released[hnd["valtype"][last.a.valtype]] = 1
  /\ (/\ last.op = "delete"
      /\ last.name \in {"globaltype", "tabletype"})
       => \A p \in DOMAIN heap : released[p] <= 1

=============================================================================
